---- MODULE Spec2Model ----
(***************************************************************************)
(* Model of the teaching knowledge graph store of better_kt_sqep:          *)
(* src/graph/mod.rs (Snapshot, KnowledgeGraph with undo/redo history) and  *)
(* src/graph/node.rs (EntityNode, Relation, entity type enums).            *)
(***************************************************************************)
EXTENDS Integers, Sequences, FiniteSets, TLC

(***************************************************************************)
(* Bounds of the model.                                                    *)
(***************************************************************************)
\* add_entity is called only while the id counter is at most MaxId
MaxId == 2
\* capacities (max_history) the store is created with: 1..MaxHistory
MaxHistory == 2
\* number of calls the caller makes on one store
MaxCalls == 5
\* number of calls made by the caller of the concrete scenario
MaxLog == 9
\* coordinators constructed in one process
MaxCoordinators == 2
\* calls of save() and of the wrappers made in one process
MaxFileCalls == 3
\* failures of encoding, locking, reading and writing in one process
MaxFaults == 1
\* length of a slice of addon types given to EntityNode::new
MaxSlice == 3
\* entities, and relations, of a document given to from_xml
MaxItems == 2
\* characters of a string given to escape_non_ascii
MaxChars == 3

\* KnowledgeGraph::default sets max_history to 100
DefaultMaxHistory == 100

(***************************************************************************)
(* node.rs: enums and EntityNode.                                          *)
(***************************************************************************)
Relation == {"Contain", "Order", "KeyOrder"}

DistinctEntityType ==
    {"KnowledgeArena", "KnowledgeUnit", "KnowledgePoint", "KnowledgeDetail"}

AddonEntityType ==
    {"Knowledge", "Thinking", "Example", "Question", "Practice", "Political"}

\* addon_types.iter().copied().collect() : a slice collected into a HashSet
CollectAddons(addon_types) == {addon_types[i] : i \in DOMAIN addon_types}

\* EntityNode::new
EntityNode_new(id, content, distinct_type, addon_types, coor) ==
    [id |-> id, content |-> content, distinct_type |-> distinct_type,
     addon_types |-> CollectAddons(addon_types), coor |-> coor]

\* EntityNode::update : every field but the id is replaced
EntityNode_update(node, content, distinct_type, addon_types, coor) ==
    [node EXCEPT !.content = content, !.distinct_type = distinct_type,
                 !.addon_types = CollectAddons(addon_types), !.coor = coor]

(***************************************************************************)
(* Maps (im::HashMap) as functions with an explicit domain.                *)
(***************************************************************************)
EmptyMap == [k \in {} |-> 0]

MapInsert(m, k, v) == [x \in DOMAIN m \cup {k} |-> IF x = k THEN v ELSE m[x]]

MapRemove(m, k) == [x \in DOMAIN m \ {k} |-> m[x]]

\* Snapshot::default : no nodes, no edges, latest_id = 1
Snapshot_default == [nodes |-> EmptyMap, edges |-> EmptyMap, latest_id |-> 1]

(***************************************************************************)
(* State.                                                                  *)
(*   current, undo_stack, redo_stack, max_history : fields of              *)
(*       KnowledgeGraph                                                    *)
(* What the caller observes of its calls:                                  *)
(*   last   : the last call made on the store, with its arguments, its     *)
(*            Result and the id it returned or what its error carries      *)
(*   prev   : operation and Result of the call made before the last one    *)
(*   before : value of current when the last call was made                 *)
(*   calls  : number of calls made                                         *)
(*   returned, add_count : ids returned by add_entity; number of           *)
(*            add_entity calls                                             *)
(*   time_travel, undone : undo or redo was called; an undo succeeded      *)
(*   phase, trace, undos : the run "successful mutations from a fresh      *)
(*            store, then undo calls only": trace[i+1] is current after    *)
(*            the i-th mutation, undos the number of undo calls so far     *)
(*   log    : every call made so far (concrete scenario only)              *)
(* The process around the store (file.rs):                                 *)
(*   file   : the backing file at the path: whether it exists, its text    *)
(*   opened : number of FiledKnowledgeGraph values constructed so far; the *)
(*            store above is the graph of coordinator number opened        *)
(*   main   : position of the main thread inside new() or save(), with     *)
(*            the locals of the call                                       *)
(*   FILE_WRITE_LOCK : the static mutex: whether held, and by which thread *)
(*            (0 the main thread, g the save thread of coordinator g)      *)
(*   rx, save_sender : per coordinator, the snapshots in its channel and   *)
(*            whether its Sender is alive                                  *)
(*   worker : per coordinator, position and locals of its save thread      *)
(*   sent, persisted, cycle_writes : per coordinator, number of snapshots  *)
(*            sent so far (a snapshot in the channel carries its number),  *)
(*            numbers of the snapshots its save thread wrote, in the order *)
(*            of the writes, and number of writes in the current cycle of  *)
(*            its save thread                                              *)
(*   on_disk : the last write of content that was completed: which         *)
(*            coordinator wrote, and the number of the snapshot written    *)
(*            (0 for the snapshot the coordinator started from)            *)
(*   faults : the calls of to_xml, lock, fs::write and fs::read_to_string  *)
(*            that returned an error so far: the thread, the call and,     *)
(*            in a save thread, the number of the snapshot of the cycle    *)
(***************************************************************************)
VARIABLES current, undo_stack, redo_stack, max_history,
          last, prev, before, calls, returned, add_count,
          time_travel, undone, phase, trace, undos, log,
          file, opened, main, FILE_WRITE_LOCK, rx, save_sender, worker,
          sent, persisted, cycle_writes, on_disk, faults

observed == <<prev, calls, returned, add_count, time_travel, undone,
              phase, trace, undos>>
filed == <<file, opened, main, FILE_WRITE_LOCK, rx, save_sender, worker,
           sent, persisted, cycle_writes, on_disk, faults>>
vars == <<current, undo_stack, redo_stack, max_history,
          last, prev, before, calls, returned, add_count,
          time_travel, undone, phase, trace, undos, log, filed>>

NoCall == [op |-> "none", args |-> <<>>, res |-> "Ok", ret |-> 0]

Call(op, args, res, ret) == [op |-> op, args |-> args, res |-> res, ret |-> ret]

\* KnowledgeGraph::default / from_snapshot(Snapshot::default())
KnowledgeGraph_default(cap) ==
    /\ current = Snapshot_default
    /\ undo_stack = <<>>
    /\ redo_stack = <<>>
    /\ max_history = cap

\* a channel item: the snapshot sent, with its number
Item(n, snapshot) == [seq |-> n, snap |-> snapshot]
NoItem == Item(0, Snapshot_default)

Coordinators == 1..MaxCoordinators

MainIdle == [pc |-> "idle", create |-> FALSE, xml |-> <<>>]
WorkerAt(pc) == [pc |-> pc, latest_snapshot |-> NoItem, xml |-> <<>>]
Unlocked == [held |-> FALSE, thread |-> 0]
MissingFile == [exists |-> FALSE, text |-> <<>>]

Written(g, n) == [coordinator |-> g, seq |-> n]
NotWritten == Written(0, 0)

\* no coordinator constructed yet, no thread spawned
Unopened ==
    /\ opened = 0
    /\ main = MainIdle
    /\ FILE_WRITE_LOCK = Unlocked
    /\ rx = [g \in Coordinators |-> <<>>]
    /\ save_sender = [g \in Coordinators |-> FALSE]
    /\ worker = [g \in Coordinators |-> WorkerAt("unspawned")]
    /\ sent = [g \in Coordinators |-> 0]
    /\ persisted = [g \in Coordinators |-> <<>>]
    /\ cycle_writes = [g \in Coordinators |-> 0]
    /\ on_disk = NotWritten
    /\ faults = <<>>

Fresh ==
    /\ Unopened
    /\ last = NoCall
    /\ prev = <<"none", "Ok">>
    /\ before = Snapshot_default
    /\ calls = 0
    /\ returned = {}
    /\ add_count = 0
    /\ time_travel = FALSE
    /\ undone = FALSE
    /\ phase = "mutating"
    /\ trace = <<Snapshot_default>>
    /\ undos = 0
    /\ log = <<>>

Init ==
    /\ \E cap \in 1..MaxHistory : KnowledgeGraph_default(cap)
    /\ Fresh
    /\ file = MissingFile

(***************************************************************************)
(* KnowledgeGraph::before_mutation                                         *)
(*   redo_stack.clear(); pop_front if len >= max_history; push_back        *)
(***************************************************************************)
\* Vector::pop_back : the stack without its last element
PopBack(stack) == SubSeq(stack, 1, Len(stack) - 1)

\* variant: the capacity test is off by one (> for >=)
PushHistory_OffByOne(stack, cap, snap) ==
    Append(IF Len(stack) > cap THEN Tail(stack) ELSE stack, snap)

\* variant: the newest entry is evicted (pop_back for pop_front)
PushHistory_EvictNewest(stack, cap, snap) ==
    Append(IF Len(stack) >= cap THEN PopBack(stack) ELSE stack, snap)

PushHistory(stack, cap, snap) ==
    Append(IF Len(stack) >= cap THEN Tail(stack) ELSE stack, snap)

\* variant: the redo stack is not cleared
before_mutation_KeepRedo ==
    /\ redo_stack' = redo_stack
    /\ undo_stack' = PushHistory(undo_stack, max_history, current)
    /\ max_history' = max_history
    /\ before' = current

before_mutation ==
    /\ redo_stack' = <<>>
    /\ undo_stack' = PushHistory(undo_stack, max_history, current)
    /\ max_history' = max_history
    /\ before' = current

(***************************************************************************)
(* KnowledgeGraph::undo                                                    *)
(***************************************************************************)
\* variant: the snapshot restored stays on the undo stack
undo_NoPop ==
    /\ before' = current
    /\ max_history' = max_history
    /\ IF undo_stack = <<>>
       THEN /\ last' = Call("undo", <<>>, "NothingToUndo", 0)
            /\ UNCHANGED <<current, undo_stack, redo_stack>>
       ELSE /\ undo_stack' = undo_stack
            /\ redo_stack' = Append(redo_stack, current)
            /\ current' = undo_stack[Len(undo_stack)]
            /\ last' = Call("undo", <<>>, "Ok", 0)

\* variant: the oldest entry is restored (pop_front for pop_back)
undo_PopFront ==
    /\ before' = current
    /\ max_history' = max_history
    /\ IF undo_stack = <<>>
       THEN /\ last' = Call("undo", <<>>, "NothingToUndo", 0)
            /\ UNCHANGED <<current, undo_stack, redo_stack>>
       ELSE /\ undo_stack' = Tail(undo_stack)
            /\ redo_stack' = Append(redo_stack, current)
            /\ current' = Head(undo_stack)
            /\ last' = Call("undo", <<>>, "Ok", 0)

undo ==
    /\ before' = current
    /\ max_history' = max_history
    /\ IF undo_stack = <<>>
       THEN /\ last' = Call("undo", <<>>, "NothingToUndo", 0)
            /\ UNCHANGED <<current, undo_stack, redo_stack>>
       ELSE /\ undo_stack' = PopBack(undo_stack)
            /\ redo_stack' = Append(redo_stack, current)
            /\ current' = undo_stack[Len(undo_stack)]
            /\ last' = Call("undo", <<>>, "Ok", 0)

(***************************************************************************)
(* KnowledgeGraph::redo                                                    *)
(***************************************************************************)
\* variant: the oldest undone entry is restored (pop_front for pop_back)
redo_PopFront ==
    /\ before' = current
    /\ max_history' = max_history
    /\ IF redo_stack = <<>>
       THEN /\ last' = Call("redo", <<>>, "NothingToRedo", 0)
            /\ UNCHANGED <<current, undo_stack, redo_stack>>
       ELSE /\ redo_stack' = Tail(redo_stack)
            /\ undo_stack' = Append(undo_stack, current)
            /\ current' = Head(redo_stack)
            /\ last' = Call("redo", <<>>, "Ok", 0)

\* variant: the old current is not pushed onto the undo stack
redo_NoPush ==
    /\ before' = current
    /\ max_history' = max_history
    /\ IF redo_stack = <<>>
       THEN /\ last' = Call("redo", <<>>, "NothingToRedo", 0)
            /\ UNCHANGED <<current, undo_stack, redo_stack>>
       ELSE /\ redo_stack' = PopBack(redo_stack)
            /\ undo_stack' = undo_stack
            /\ current' = redo_stack[Len(redo_stack)]
            /\ last' = Call("redo", <<>>, "Ok", 0)

redo ==
    /\ before' = current
    /\ max_history' = max_history
    /\ IF redo_stack = <<>>
       THEN /\ last' = Call("redo", <<>>, "NothingToRedo", 0)
            /\ UNCHANGED <<current, undo_stack, redo_stack>>
       ELSE /\ redo_stack' = PopBack(redo_stack)
            /\ undo_stack' = Append(undo_stack, current)
            /\ current' = redo_stack[Len(redo_stack)]
            /\ last' = Call("redo", <<>>, "Ok", 0)

(***************************************************************************)
(* KnowledgeGraph::add_entity                                              *)
(***************************************************************************)
\* variant: the id is one more than the largest key of the node map
add_entity_MaxKeyPlusOne(content, distinct_type, addon_types, coor) ==
    /\ before_mutation
    /\ LET keys == DOMAIN current.nodes
           id == IF keys = {} THEN 1
                 ELSE (CHOOSE k \in keys : \A j \in keys : j <= k) + 1 IN
       /\ current' = [current EXCEPT
              !.latest_id = id + 1,
              !.nodes = MapInsert(current.nodes, id,
                  EntityNode_new(id, content, distinct_type, addon_types, coor))]
       /\ last' = Call("add_entity",
                       <<content, distinct_type, addon_types, coor>>, "Ok", id)

\* variant: the id counter is not incremented
add_entity_NoIncrement(content, distinct_type, addon_types, coor) ==
    /\ before_mutation
    /\ LET id == current.latest_id IN
       /\ current' = [current EXCEPT
              !.nodes = MapInsert(current.nodes, id,
                  EntityNode_new(id, content, distinct_type, addon_types, coor))]
       /\ last' = Call("add_entity",
                       <<content, distinct_type, addon_types, coor>>, "Ok", id)

add_entity(content, distinct_type, addon_types, coor) ==
    /\ before_mutation
    /\ LET id == current.latest_id IN
       /\ current' = [current EXCEPT
              !.latest_id = id + 1,
              !.nodes = MapInsert(current.nodes, id,
                  EntityNode_new(id, content, distinct_type, addon_types, coor))]
       /\ last' = Call("add_entity",
                       <<content, distinct_type, addon_types, coor>>, "Ok", id)

(***************************************************************************)
(* KnowledgeGraph::remove_entity                                           *)
(***************************************************************************)
\* variant: only the edges leaving id are dropped
RetainEdges_FromOnly(edges, id) ==
    [e \in {k \in DOMAIN edges : k[1] # id} |-> edges[e]]

\* edges.retain(|(from, to), _| *from != id && *to != id)
RetainEdges(edges, id) ==
    [e \in {k \in DOMAIN edges : k[1] # id /\ k[2] # id} |-> edges[e]]

remove_entity(id) ==
    /\ before_mutation
    /\ IF id \notin DOMAIN current.nodes
       THEN /\ current' = current
            /\ last' = Call("remove_entity", <<id>>, "EntityNotFound", id)
       ELSE /\ current' = [current EXCEPT
                   !.nodes = MapRemove(current.nodes, id),
                   !.edges = RetainEdges(current.edges, id)]
            /\ last' = Call("remove_entity", <<id>>, "Ok", 0)

(***************************************************************************)
(* KnowledgeGraph::update_entity_content                                   *)
(***************************************************************************)
\* variant: the position is reset instead of kept
update_entity_content_ResetCoor(id, content, distinct_type, addon_types) ==
    /\ before_mutation
    /\ IF id \notin DOMAIN current.nodes
       THEN /\ current' = current
            /\ last' = Call("update_entity_content",
                   <<id, content, distinct_type, addon_types>>,
                   "EntityNotFound", id)
       ELSE /\ current' = [current EXCEPT !.nodes[id] =
                   EntityNode_update(@, content, distinct_type, addon_types,
                                     <<0, 0>>)]
            /\ last' = Call("update_entity_content",
                   <<id, content, distinct_type, addon_types>>, "Ok", 0)

update_entity_content(id, content, distinct_type, addon_types) ==
    /\ before_mutation
    /\ IF id \notin DOMAIN current.nodes
       THEN /\ current' = current
            /\ last' = Call("update_entity_content",
                   <<id, content, distinct_type, addon_types>>,
                   "EntityNotFound", id)
       ELSE /\ current' = [current EXCEPT !.nodes[id] =
                   EntityNode_update(@, content, distinct_type, addon_types,
                                     @.coor)]
            /\ last' = Call("update_entity_content",
                   <<id, content, distinct_type, addon_types>>, "Ok", 0)

(***************************************************************************)
(* KnowledgeGraph::update_entity_position                                  *)
(***************************************************************************)
update_entity_position(id, new_pos) ==
    /\ before_mutation
    /\ IF id \notin DOMAIN current.nodes
       THEN /\ current' = current
            /\ last' = Call("update_entity_position", <<id, new_pos>>,
                            "EntityNotFound", id)
       ELSE /\ current' = [current EXCEPT !.nodes[id].coor = new_pos]
            /\ last' = Call("update_entity_position", <<id, new_pos>>, "Ok", 0)

(***************************************************************************)
(* KnowledgeGraph::add_edge                                                *)
(***************************************************************************)
\* variant: the target endpoint is not checked
add_edge_NoTargetCheck(from, to, relation) ==
    /\ before_mutation
    /\ IF from \notin DOMAIN current.nodes
       THEN /\ current' = current
            /\ last' = Call("add_edge", <<from, to, relation>>,
                            "EntityNotFound", from)
       ELSE /\ current' = [current EXCEPT
                   !.edges = MapInsert(current.edges, <<from, to>>, relation)]
            /\ last' = Call("add_edge", <<from, to, relation>>, "Ok", 0)

\* variant: an existing (from, to) key is rejected instead of overwritten
add_edge_RejectExisting(from, to, relation) ==
    /\ before_mutation
    /\ IF from \notin DOMAIN current.nodes
       THEN /\ current' = current
            /\ last' = Call("add_edge", <<from, to, relation>>,
                            "EntityNotFound", from)
       ELSE IF to \notin DOMAIN current.nodes
       THEN /\ current' = current
            /\ last' = Call("add_edge", <<from, to, relation>>,
                            "EntityNotFound", to)
       ELSE IF <<from, to>> \in DOMAIN current.edges
       THEN /\ current' = current
            /\ last' = Call("add_edge", <<from, to, relation>>,
                            "EdgeAlreadyExists", <<from, to>>)
       ELSE /\ current' = [current EXCEPT
                   !.edges = MapInsert(current.edges, <<from, to>>, relation)]
            /\ last' = Call("add_edge", <<from, to, relation>>, "Ok", 0)

add_edge(from, to, relation) ==
    /\ before_mutation
    /\ IF from \notin DOMAIN current.nodes
       THEN /\ current' = current
            /\ last' = Call("add_edge", <<from, to, relation>>,
                            "EntityNotFound", from)
       ELSE IF to \notin DOMAIN current.nodes
       THEN /\ current' = current
            /\ last' = Call("add_edge", <<from, to, relation>>,
                            "EntityNotFound", to)
       ELSE /\ current' = [current EXCEPT
                   !.edges = MapInsert(current.edges, <<from, to>>, relation)]
            /\ last' = Call("add_edge", <<from, to, relation>>, "Ok", 0)

(***************************************************************************)
(* KnowledgeGraph::remove_edge                                             *)
(***************************************************************************)
\* variant: the edge is removed in both directions
remove_edge_BothWays(from, to) ==
    /\ before_mutation
    /\ IF <<from, to>> \notin DOMAIN current.edges
       THEN /\ current' = current
            /\ last' = Call("remove_edge", <<from, to>>, "EdgeNotFound",
                            <<from, to>>)
       ELSE /\ current' = [current EXCEPT
                   !.edges = MapRemove(MapRemove(current.edges, <<from, to>>),
                                       <<to, from>>)]
            /\ last' = Call("remove_edge", <<from, to>>, "Ok", 0)

remove_edge(from, to) ==
    /\ before_mutation
    /\ IF <<from, to>> \notin DOMAIN current.edges
       THEN /\ current' = current
            /\ last' = Call("remove_edge", <<from, to>>, "EdgeNotFound",
                            <<from, to>>)
       ELSE /\ current' = [current EXCEPT
                   !.edges = MapRemove(current.edges, <<from, to>>)]
            /\ last' = Call("remove_edge", <<from, to>>, "Ok", 0)

(***************************************************************************)
(* KnowledgeGraph::update_edge                                             *)
(***************************************************************************)
\* variant: a missing edge is inserted instead of reported
update_edge_Upsert(from, to, relation) ==
    /\ before_mutation
    /\ current' = [current EXCEPT
           !.edges = MapInsert(current.edges, <<from, to>>, relation)]
    /\ last' = Call("update_edge", <<from, to, relation>>, "Ok", 0)

update_edge(from, to, relation) ==
    /\ before_mutation
    /\ IF <<from, to>> \notin DOMAIN current.edges
       THEN /\ current' = current
            /\ last' = Call("update_edge", <<from, to, relation>>,
                            "EdgeNotFound", <<from, to>>)
       ELSE /\ current' = [current EXCEPT !.edges[<<from, to>>] = relation]
            /\ last' = Call("update_edge", <<from, to, relation>>, "Ok", 0)

(***************************************************************************)
(* The caller of the store: the arguments it passes.                       *)
(***************************************************************************)
Ids == 1..MaxId

InA == <<"A", "KnowledgeArena", <<>>, <<0, 0>>>>
InB == <<"B", "KnowledgePoint", <<"Example", "Question">>, <<1, 1>>>>

\* entities are added as A; content and position are updated to those of B
EntityInputs == {InA}
ContentInputs == {<<InB[1], InB[2], InB[3]>>}
PosInputs == {InB[4]}
RelationInputs == {"Contain", "Order"}

MutatingOps == {"add_entity", "remove_entity", "update_entity_content",
                "update_entity_position", "add_edge", "remove_edge",
                "update_edge"}

\* What the caller writes down after a call.
Track ==
    /\ calls < MaxCalls
    /\ calls' = calls + 1
    /\ prev' = <<last.op, last.res>>
    /\ returned' = IF last'.op = "add_entity"
                   THEN returned \cup {last'.ret} ELSE returned
    /\ add_count' = IF last'.op = "add_entity"
                    THEN add_count + 1 ELSE add_count
    /\ time_travel' = (time_travel \/ last'.op \in {"undo", "redo"})
    /\ undone' = (undone \/ (last'.op = "undo" /\ last'.res = "Ok"))
    /\ IF /\ phase = "mutating"
          /\ last'.op \in MutatingOps /\ last'.res = "Ok"
       THEN /\ phase' = "mutating"
            /\ trace' = Append(trace, current')
            /\ undos' = 0
       ELSE IF /\ last'.op = "undo"
               /\ \/ phase = "mutating"
                  \/ phase = "undoing" /\ last.res = "Ok"
       THEN /\ phase' = "undoing"
            /\ trace' = trace
            /\ undos' = undos + 1
       ELSE /\ phase' = "off"
            /\ trace' = <<>>
            /\ undos' = 0
    /\ log' = log
    /\ UNCHANGED filed

AddEntity ==
    /\ current.latest_id <= MaxId
    /\ \E in \in EntityInputs : add_entity(in[1], in[2], in[3], in[4])
    /\ Track

RemoveEntity ==
    /\ \E id \in Ids : remove_entity(id)
    /\ Track

UpdateEntityContent ==
    /\ \E id \in Ids, c \in ContentInputs :
           update_entity_content(id, c[1], c[2], c[3])
    /\ Track

UpdateEntityPosition ==
    /\ \E id \in Ids, p \in PosInputs : update_entity_position(id, p)
    /\ Track

AddEdge ==
    /\ \E from \in Ids, to \in Ids, r \in RelationInputs : add_edge(from, to, r)
    /\ Track

RemoveEdge ==
    /\ \E from \in Ids, to \in Ids : remove_edge(from, to)
    /\ Track

UpdateEdge ==
    /\ \E from \in Ids, to \in Ids, r \in RelationInputs :
           update_edge(from, to, r)
    /\ Track

Undo == undo /\ Track

Redo == redo /\ Track

Next ==
    \/ AddEntity
    \/ RemoveEntity
    \/ UpdateEntityContent
    \/ UpdateEntityPosition
    \/ AddEdge
    \/ RemoveEdge
    \/ UpdateEdge
    \/ Undo
    \/ Redo

Spec == Init /\ [][Next]_vars

(***************************************************************************)
(* C1. After a mutating operation that succeeded, an immediately following *)
(* undo() succeeds and leaves current equal (nodes, edges, id counter) to  *)
(* the snapshot that was current just before that mutation.                *)
(***************************************************************************)
C1_UndoRestoresPreMutation ==
    [][(last.op \in MutatingOps /\ last.res = "Ok" /\ last'.op = "undo")
          => (last'.res = "Ok" /\ current' = before)]_vars

\* an undo has just been made right after a successful mutation
C1_Witness ==
    /\ last.op = "undo" /\ last.res = "Ok"
    /\ prev[1] \in MutatingOps /\ prev[2] = "Ok"
    /\ current # before

(***************************************************************************)
(* C2. After an undo() that succeeded, an immediately following redo()     *)
(* succeeds and leaves current equal to the snapshot that was current just *)
(* before the undo.                                                        *)
(***************************************************************************)
C2_RedoRestoresPreUndo ==
    [][(last.op = "undo" /\ last.res = "Ok" /\ last'.op = "redo")
          => (last'.res = "Ok" /\ current' = before)]_vars

\* a redo has just been made right after a successful undo
C2_Witness ==
    /\ last.op = "redo" /\ last.res = "Ok"
    /\ prev = <<"undo", "Ok">>
    /\ current # before

(***************************************************************************)
(* C3. In every reachable state the undo stack holds at most max_history   *)
(* snapshots; redo, which pushes without a capacity check, never makes it  *)
(* exceed the capacity.                                                    *)
(***************************************************************************)
C3_UndoStackBounded == Len(undo_stack) <= max_history

\* a redo has pushed onto the undo stack and filled it to capacity, after
\* the store had evicted (more mutations than the capacity were made)
C3_Witness ==
    /\ last.op = "redo" /\ last.res = "Ok"
    /\ Len(undo_stack) = max_history
    /\ calls > max_history + 2

(***************************************************************************)
(* C4. From a fresh store with capacity N, after N+k successful mutations  *)
(* (k >= 0) exactly N consecutive undo() calls succeed and the next one    *)
(* fails with NothingToUndo; the snapshot reached after those N undos is   *)
(* the one that was current after the k-th mutation (the k oldest history  *)
(* entries were evicted, oldest first).                                    *)
(***************************************************************************)
\* number of successful mutations of the run, all made before its undos
Mutations == Len(trace) - 1

C4_BoundedHistoryFIFO ==
    (phase = "undoing" /\ Mutations >= max_history) =>
        /\ undos <= max_history => last.res = "Ok"
        /\ undos = max_history =>
               current = trace[Mutations - max_history + 1]
        /\ undos = max_history + 1 =>
               (last.res = "NothingToUndo" /\ current = before)

\* more mutations than the capacity, then capacity + 1 undo calls
C4_Witness ==
    /\ phase = "undoing"
    /\ Mutations > max_history
    /\ undos = max_history + 1
    /\ current # Snapshot_default

(***************************************************************************)
(* C5. Any mutating call empties the redo stack: after mutate, undo,       *)
(* mutate-again, a redo() fails with NothingToRedo and leaves current      *)
(* unchanged.                                                              *)
(***************************************************************************)
C5_MutationClearsRedo ==
    [][/\ (last'.op \in MutatingOps => redo_stack' = <<>>)
       /\ (last.op \in MutatingOps /\ last'.op = "redo")
              => (last'.res = "NothingToRedo" /\ current' = current)]_vars

\* four calls: the third is a mutation and the fourth a redo; an undo has
\* succeeded, which the first call cannot have been: the calls were
\* mutate, undo, mutate-again, redo
C5_Witness ==
    /\ calls = 4
    /\ undone
    /\ prev[1] \in MutatingOps
    /\ last.op = "redo" /\ last.res = "NothingToRedo"

(***************************************************************************)
(* C6. A successful remove_entity(id) removes node id and exactly the      *)
(* edges (from, to) with from = id or to = id; every other node, every     *)
(* other edge with its relation and the id counter are unchanged.          *)
(***************************************************************************)
C6_RemoveEntityCascade ==
    (last.op = "remove_entity" /\ last.res = "Ok") =>
        LET id == last.args[1] IN
        /\ id \in DOMAIN before.nodes
        /\ DOMAIN current.nodes = DOMAIN before.nodes \ {id}
        /\ \A n \in DOMAIN current.nodes : current.nodes[n] = before.nodes[n]
        /\ DOMAIN current.edges =
               {e \in DOMAIN before.edges : e[1] # id /\ e[2] # id}
        /\ \A e \in DOMAIN current.edges : current.edges[e] = before.edges[e]
        /\ current.latest_id = before.latest_id

\* the removed entity had an edge to another entity, and an edge between
\* other entities was there to be kept
C6_Witness ==
    /\ last.op = "remove_entity" /\ last.res = "Ok"
    /\ \E e \in DOMAIN before.edges :
           (e[1] = last.args[1] \/ e[2] = last.args[1]) /\ e[1] # e[2]
    /\ DOMAIN current.edges # {}
    /\ DOMAIN current.nodes # {}

(***************************************************************************)
(* C7. For a store created empty, in every snapshot the store holds        *)
(* (current, each undo-stack entry, each redo-stack entry) both endpoints  *)
(* of every edge are keys of that snapshot's node map.                     *)
(***************************************************************************)
EndpointsExist(snap) ==
    \A e \in DOMAIN snap.edges :
        e[1] \in DOMAIN snap.nodes /\ e[2] \in DOMAIN snap.nodes

C7_EdgesReferenceNodes ==
    /\ EndpointsExist(current)
    /\ \A i \in DOMAIN undo_stack : EndpointsExist(undo_stack[i])
    /\ \A i \in DOMAIN redo_stack : EndpointsExist(redo_stack[i])

\* an entity with edges was removed and the removal undone: the history
\* holds snapshots with edges on both stacks' sides
C7_Witness ==
    /\ last.op = "undo" /\ last.res = "Ok"
    /\ prev = <<"remove_entity", "Ok">>
    /\ DOMAIN current.edges # {}
    /\ redo_stack # <<>>
    /\ DOMAIN current.nodes # DOMAIN redo_stack[Len(redo_stack)].nodes

(***************************************************************************)
(* C8. Within one store, for any sequence of operations including          *)
(* remove_entity, undo and redo, add_entity never returns an id that an    *)
(* earlier add_entity call on the same store returned.                     *)
(***************************************************************************)
C8_IdsNeverReused ==
    [][(last'.op = "add_entity" /\ calls' = calls + 1)
          => last'.ret \notin returned]_vars

(***************************************************************************)
(* C9. On a fresh store, in sequences with no undo or redo call, the i-th  *)
(* add_entity call returns id i, whatever remove, update and edge calls    *)
(* (successful or failing) are interleaved: removal never lowers the       *)
(* counter.                                                                *)
(***************************************************************************)
C9_SequentialIds ==
    (~time_travel /\ last.op = "add_entity") => last.ret = add_count

\* the second add_entity returned 2 although entity 1 had been removed
C9_Witness ==
    /\ ~time_travel
    /\ last.op = "add_entity" /\ last.ret = 2 /\ add_count = 2
    /\ DOMAIN current.nodes = {2}

(***************************************************************************)
(* The concrete scenario: a store with the default capacity whose caller   *)
(* makes the scenario's four mutations, each at most once and in any       *)
(* order, and calls undo at any time.  log records every call.             *)
(***************************************************************************)
InitScenario ==
    /\ KnowledgeGraph_default(DefaultMaxHistory)
    /\ Fresh
    /\ file = MissingFile

Issued(op, args) == \E i \in DOMAIN log : log[i].op = op /\ log[i].args = args

TrackScenario ==
    /\ Len(log) < MaxLog
    /\ log' = Append(log, last')
    /\ UNCHANGED <<observed, filed>>

ScenarioAddA ==
    /\ ~Issued("add_entity", InA)
    /\ add_entity(InA[1], InA[2], InA[3], InA[4])
    /\ TrackScenario

ScenarioAddB ==
    /\ ~Issued("add_entity", InB)
    /\ add_entity(InB[1], InB[2], InB[3], InB[4])
    /\ TrackScenario

ScenarioAddEdge ==
    /\ ~Issued("add_edge", <<1, 2, "Contain">>)
    /\ add_edge(1, 2, "Contain")
    /\ TrackScenario

ScenarioRemoveEntity ==
    /\ ~Issued("remove_entity", <<1>>)
    /\ remove_entity(1)
    /\ TrackScenario

ScenarioUndo == undo /\ TrackScenario

NextScenario ==
    \/ ScenarioAddA
    \/ ScenarioAddB
    \/ ScenarioAddEdge
    \/ ScenarioRemoveEntity
    \/ ScenarioUndo

SpecScenario == InitScenario /\ [][NextScenario]_vars

\* the calls of the scenario, in order, followed by undo calls
ScenarioCalls ==
    <<<<"add_entity", InA>>, <<"add_entity", InB>>,
      <<"add_edge", <<1, 2, "Contain">>>>, <<"remove_entity", <<1>>>>,
      <<"undo", <<>>>>, <<"undo", <<>>>>, <<"undo", <<>>>>,
      <<"undo", <<>>>>, <<"undo", <<>>>>>>

\* the caller has made exactly the first n calls of the scenario
Made(n) ==
    /\ Len(log) = n
    /\ \A i \in 1..n : <<log[i].op, log[i].args>> = ScenarioCalls[i]

\* the states the scenario goes through
NodeA == EntityNode_new(1, InA[1], InA[2], InA[3], InA[4])
NodeB == EntityNode_new(2, InB[1], InB[2], InB[3], InB[4])
OnlyA == [nodes |-> (1 :> NodeA), edges |-> EmptyMap, latest_id |-> 2]
BothNoEdge ==
    [nodes |-> (1 :> NodeA) @@ (2 :> NodeB), edges |-> EmptyMap,
     latest_id |-> 3]
BothWithEdge ==
    [BothNoEdge EXCEPT !.edges = (<<1, 2>> :> "Contain")]
OnlyB == [nodes |-> (2 :> NodeB), edges |-> EmptyMap, latest_id |-> 3]

\* the part of the scenario up to the first undo
ScenarioUpToFirstUndo ==
    /\ Made(1) => (last.ret = 1 /\ current = OnlyA)
    /\ Made(2) => (last.ret = 2 /\ current = BothNoEdge)
    /\ Made(3) => (last.res = "Ok" /\ current = BothWithEdge)
    /\ Made(4) => (last.res = "Ok" /\ current = OnlyB)
    /\ Made(5) => (last.res = "Ok" /\ current = BothWithEdge)

(***************************************************************************)
(* C10. Scenario on a fresh store: add_entity(A) returns 1, add_entity(B)  *)
(* returns 2, add_edge(1,2,Contain) succeeds, remove_entity(1) leaves zero *)
(* edges and exactly entity 2; the first undo restores entity 1 and the    *)
(* edge; the second undo returns to the two entities without the edge,     *)
(* the third to the single-entity state, the fourth to the empty store,    *)
(* and the fifth undo fails with NothingToUndo.                            *)
(***************************************************************************)
C10_ScenarioUndoChain ==
    /\ ScenarioUpToFirstUndo
    /\ Made(6) => (last.res = "Ok" /\ current = BothNoEdge)
    /\ Made(7) => (last.res = "Ok" /\ current = OnlyA)
    /\ Made(8) => (last.res = "Ok" /\ current = Snapshot_default)
    /\ Made(9) => (last.res = "NothingToUndo" /\ current = Snapshot_default)

\* the whole scenario was played, down to the undo that fails
C10_Witness == Made(9) /\ last.res = "NothingToUndo"

\* C10 with a history of two steps: the second undo returns to the
\* single-entity state and the third undo fails with NothingToUndo
C10_AsStated ==
    /\ ScenarioUpToFirstUndo
    /\ Made(6) => (last.res = "Ok" /\ current = OnlyA)
    /\ Made(7) => last.res = "NothingToUndo"

(***************************************************************************)
(* C13. remove_entity, update_entity_content and update_entity_position    *)
(* called with an id absent from current.nodes return EntityNotFound(id);  *)
(* remove_edge and update_edge called with a pair absent from              *)
(* current.edges return EdgeNotFound(from, to); in each failing case       *)
(* current is equal to what it was before the call.                        *)
(***************************************************************************)
EntityOps == {"remove_entity", "update_entity_content",
              "update_entity_position"}

EdgeOps == {"remove_edge", "update_edge"}

C13_NotFoundLeavesCurrent ==
    /\ (last.op \in EntityOps /\ last.args[1] \notin DOMAIN before.nodes) =>
           /\ last.res = "EntityNotFound" /\ last.ret = last.args[1]
           /\ current = before
    /\ (last.op \in EdgeOps
            /\ <<last.args[1], last.args[2]>> \notin DOMAIN before.edges) =>
           /\ last.res = "EdgeNotFound"
           /\ last.ret = <<last.args[1], last.args[2]>>
           /\ current = before

\* update_edge on a missing pair of two existing entities that have the
\* reverse edge
C13_Witness ==
    /\ last.op = "update_edge" /\ last.res = "EdgeNotFound"
    /\ last.args[1] # last.args[2]
    /\ <<last.args[2], last.args[1]>> \in DOMAIN current.edges

(***************************************************************************)
(* C14. undo() on an empty undo stack returns NothingToUndo and redo() on  *)
(* an empty redo stack returns NothingToRedo, both leaving (current,       *)
(* undo stack, redo stack) unchanged; a successful undo pops the newest    *)
(* undo entry into current and pushes the old current onto the redo stack, *)
(* and redo does the same with the stacks exchanged.                       *)
(***************************************************************************)
C14_UndoRedoSteps ==
    [][/\ (last'.op = "undo" /\ calls' = calls + 1) =>
              IF undo_stack = <<>>
              THEN /\ last'.res = "NothingToUndo"
                   /\ UNCHANGED <<current, undo_stack, redo_stack>>
              ELSE /\ last'.res = "Ok"
                   /\ current' = undo_stack[Len(undo_stack)]
                   /\ undo_stack' = SubSeq(undo_stack, 1, Len(undo_stack) - 1)
                   /\ redo_stack' = redo_stack \o <<current>>
       /\ (last'.op = "redo" /\ calls' = calls + 1) =>
              IF redo_stack = <<>>
              THEN /\ last'.res = "NothingToRedo"
                   /\ UNCHANGED <<current, undo_stack, redo_stack>>
              ELSE /\ last'.res = "Ok"
                   /\ current' = redo_stack[Len(redo_stack)]
                   /\ redo_stack' = SubSeq(redo_stack, 1, Len(redo_stack) - 1)
                   /\ undo_stack' = undo_stack \o <<current>>]_vars

\* every undo entry was undone, the next undo failed, and a redo followed
C14_Witness ==
    /\ last.op = "redo" /\ last.res = "Ok"
    /\ prev = <<"undo", "NothingToUndo">>
    /\ Len(undo_stack) = 1

SameButNode(id) ==
    /\ DOMAIN current.nodes = DOMAIN before.nodes
    /\ \A n \in DOMAIN before.nodes \ {id} :
           current.nodes[n] = before.nodes[n]
    /\ current.edges = before.edges
    /\ current.latest_id = before.latest_id

C16_UpdateFrames ==
    /\ (last.op = "update_entity_content" /\ last.res = "Ok") =>
           LET id == last.args[1] IN
           /\ SameButNode(id)
           /\ current.nodes[id] =
                  [id |-> before.nodes[id].id,
                   content |-> last.args[2],
                   distinct_type |-> last.args[3],
                   addon_types |-> {last.args[4][i] : i \in DOMAIN last.args[4]},
                   coor |-> before.nodes[id].coor]
    /\ (last.op = "update_entity_position" /\ last.res = "Ok") =>
           LET id == last.args[1] IN
           /\ SameButNode(id)
           /\ current.nodes[id] = [before.nodes[id] EXCEPT !.coor = last.args[2]]

\* the content of a node that had been moved was replaced, next to another
\* node
C16_Witness ==
    /\ last.op = "update_entity_content" /\ last.res = "Ok"
    /\ before.nodes[last.args[1]].coor # <<0, 0>>
    /\ before.nodes[last.args[1]].content # last.args[2]
    /\ Cardinality(DOMAIN current.nodes) = 2

(***************************************************************************)
(* codec.rs: Snapshot <-> document.                                        *)
(* A text is the sequence of the root elements it holds: the empty text is *)
(* <<>>, a document is <<kg>> with kg the KG element: its title, the       *)
(* entity elements and the relation elements, each a record of its child   *)
(* elements.  Element texts are written as they stand in the file, after   *)
(* escape_non_ascii: a character above 127 is &#<code point>;.             *)
(***************************************************************************)
\* DistinctEntityType::class_name
class_name(distinct_type) ==
    CASE distinct_type = "KnowledgeArena" -> "&#30693;&#35782;&#39046;&#22495;"
      [] distinct_type = "KnowledgeUnit" -> "&#30693;&#35782;&#21333;&#20803;"
      [] distinct_type = "KnowledgePoint" -> "&#30693;&#35782;&#28857;"
      [] distinct_type = "KnowledgeDetail" ->
             "&#20851;&#38190;&#30693;&#35782;&#32454;&#33410;"

\* DistinctEntityType::level
level(distinct_type) ==
    CASE distinct_type = "KnowledgeArena" -> "&#19968;&#32423;"
      [] distinct_type = "KnowledgeUnit" -> "&#20108;&#32423;"
      [] distinct_type = "KnowledgePoint" -> "&#24402;&#32435;&#32423;"
      [] distinct_type = "KnowledgeDetail" -> "&#20869;&#23481;&#32423;"

ContentMethodNode == "&#20869;&#23481;&#26041;&#27861;&#22411;&#33410;&#28857;"
ContainLabel == "&#21253;&#21547;&#20851;&#31995;"
OrderLabel == "&#27425;&#24207;&#20851;&#31995;"
OrderLabelAlt == "&#27425;&#24207;&#65306;&#27425;&#24207;&#20851;&#31995;"

\* Relation::class_name
Relation_class_name(relation) ==
    CASE relation = "Contain" -> ContainLabel
      [] relation = "Order" -> OrderLabel

\* Relation::classification
Relation_classification(relation) ==
    CASE relation = "Contain" -> ContainLabel
      [] relation = "Order" -> OrderLabel

\* const ADDON_TYPES : T Z Q K E P
ADDON_TYPES ==
    <<"Thinking", "Political", "Question", "Knowledge", "Example", "Practice">>

\* variant: one character per type in the order of the enum declaration
serialize_addon_types_EnumOrder(addon_types) ==
    LET order == <<"Knowledge", "Thinking", "Example", "Question",
                   "Practice", "Political">>
    IN [i \in 1..6 |-> IF order[i] \in addon_types THEN "1" ELSE "0"]

\* serialize_addon_types : one character per slot of ADDON_TYPES
serialize_addon_types(addon_types) ==
    [i \in 1..6 |-> IF ADDON_TYPES[i] \in addon_types THEN "1" ELSE "0"]

\* variant: the slots are read in the order of the enum declaration
deserialize_addon_types_EnumOrder(str) ==
    LET order == <<"Knowledge", "Thinking", "Example", "Question",
                   "Practice", "Political">>
    IN {order[i] : i \in {j \in 1..6 : j <= Len(str) /\ str[j] = "1"}}

\* deserialize_addon_types : s.chars().zip(ADDON_TYPES), '1' inserts
deserialize_addon_types(str) ==
    {ADDON_TYPES[i] : i \in {j \in 1..6 : j <= Len(str) /\ str[j] = "1"}}

\* impl From<&EntityNode> for SerializableEntity (with Default for the rest)
SerializableEntity_from(node) ==
    [id |-> node.id,
     class_name |-> class_name(node.distinct_type),
     classification |-> ContentMethodNode,
     identity |-> "&#30693;&#35782;",
     level |-> level(node.distinct_type),
     attach |-> serialize_addon_types(node.addon_types),
     opentool |-> "&#26080;",
     content |-> node.content,
     x |-> node.coor[1],
     y |-> node.coor[2]]

\* Result values of the decoding functions
Decoded(value) == [ok |-> TRUE, value |-> value, err |-> <<>>]
Failed(kind, field, value) ==
    [ok |-> FALSE, value |-> <<>>, err |-> <<kind, field, value>>]

\* impl TryFrom<SerializableEntity> for EntityNode
EntityNode_try_from(value) ==
    LET name == value.class_name
        node(distinct_type) ==
            Decoded([id |-> value.id, content |-> value.content,
                     distinct_type |-> distinct_type,
                     addon_types |-> deserialize_addon_types(value.attach),
                     coor |-> <<value.x, value.y>>])
    IN CASE name = "&#30693;&#35782;&#39046;&#22495;" -> node("KnowledgeArena")
         [] name = "&#30693;&#35782;&#21333;&#20803;" -> node("KnowledgeUnit")
         [] name = "&#30693;&#35782;&#28857;" -> node("KnowledgePoint")
         [] name = "&#20851;&#38190;&#30693;&#35782;&#32454;&#33410;" ->
                node("KnowledgeDetail")
         [] OTHER -> Failed("Unexpected",
                            "&#23454;&#20307;&#31867;&#22411;", name)

\* variant: the name of the relation is its class_name
SerializableEdge_from_edge_NameOfRelation(from, to, relation) ==
    [name |-> Relation_class_name(relation),
     headnodeid |-> from,
     tailnodeid |-> to,
     class_name |-> Relation_class_name(relation),
     mask |-> "&#30693;&#35782;&#36830;&#32447;",
     classification |-> Relation_classification(relation),
     head_need |-> ContentMethodNode,
     tail_need |-> ContentMethodNode]

\* SerializableEdge::from_edge (with Default for the rest)
SerializableEdge_from_edge(from, to, relation) ==
    [name |-> "&#21253;&#21547;",
     headnodeid |-> from,
     tailnodeid |-> to,
     class_name |-> Relation_class_name(relation),
     mask |-> "&#30693;&#35782;&#36830;&#32447;",
     classification |-> Relation_classification(relation),
     head_need |-> ContentMethodNode,
     tail_need |-> ContentMethodNode]

\* variant: only the label that from_edge writes is read as Order
to_edge_CanonicalOnly(edge) ==
    CASE edge.class_name = ContainLabel ->
             Decoded(<<edge.headnodeid, edge.tailnodeid, "Contain">>)
      [] edge.class_name = OrderLabel ->
             Decoded(<<edge.headnodeid, edge.tailnodeid, "Order">>)
      [] OTHER -> Failed("Unexpected", "&#20851;&#31995;&#21517;",
                         edge.class_name)

\* variant: a class_name that is not known is read as Contain
to_edge_UnknownIsContain(edge) ==
    IF edge.class_name \in {OrderLabel, OrderLabelAlt}
    THEN Decoded(<<edge.headnodeid, edge.tailnodeid, "Order">>)
    ELSE Decoded(<<edge.headnodeid, edge.tailnodeid, "Contain">>)

\* SerializableEdge::to_edge
to_edge(edge) ==
    CASE edge.class_name = ContainLabel ->
             Decoded(<<edge.headnodeid, edge.tailnodeid, "Contain">>)
      [] edge.class_name \in {OrderLabel, OrderLabelAlt} ->
             Decoded(<<edge.headnodeid, edge.tailnodeid, "Order">>)
      [] OTHER -> Failed("Unexpected", "&#20851;&#31995;&#21517;",
                         edge.class_name)

\* the keys of a map in the order the map is iterated in (ascending here;
\* decoding does not depend on the order)
RECURSIVE IdsInOrder(_)
IdsInOrder(keys) ==
    IF keys = {} THEN <<>>
    ELSE LET k == CHOOSE a \in keys : \A b \in keys : a <= b
         IN <<k>> \o IdsInOrder(keys \ {k})

RECURSIVE PairsInOrder(_)
PairsInOrder(keys) ==
    IF keys = {} THEN <<>>
    ELSE LET k == CHOOSE a \in keys : \A b \in keys :
                      a[1] < b[1] \/ (a[1] = b[1] /\ a[2] <= b[2])
         IN <<k>> \o PairsInOrder(keys \ {k})

KGTitle == "&#25945;&#23398;&#30693;&#35782;&#22270;&#35889;"

\* impl From<&Snapshot> for SerializableSnapshot
SerializableSnapshot_from(snap) ==
    LET ids == IdsInOrder(DOMAIN snap.nodes)
        pairs == PairsInOrder(DOMAIN snap.edges)
    IN [title |-> KGTitle,
        entities |-> [i \in 1..Len(ids) |->
                         SerializableEntity_from(snap.nodes[ids[i]])],
        relations |-> [i \in 1..Len(pairs) |->
                          SerializableEdge_from_edge(pairs[i][1], pairs[i][2],
                                                     snap.edges[pairs[i]])]]

\* Snapshot::to_xml : the text with the one KG element
to_xml(snap) == <<SerializableSnapshot_from(snap)>>

\* .map(...).collect::<Result<HashMap, _>>() : the first error ends the
\* collection, a later item replaces an earlier one with the same key
RECURSIVE CollectNodes(_, _)
CollectNodes(entities, nodes) ==
    IF entities = <<>> THEN Decoded(nodes)
    ELSE LET entity == EntityNode_try_from(Head(entities))
         IN IF ~entity.ok THEN entity
            ELSE CollectNodes(Tail(entities),
                     MapInsert(nodes, entity.value.id, entity.value))

RECURSIVE CollectEdges(_, _)
CollectEdges(relations, edges) ==
    IF relations = <<>> THEN Decoded(edges)
    ELSE LET edge == to_edge(Head(relations))
         IN IF ~edge.ok THEN edge
            ELSE CollectEdges(Tail(relations),
                     MapInsert(edges, <<edge.value[1], edge.value[2]>>,
                               edge.value[3]))

\* variant: the smallest key is taken (min for max)
MaxKey_Min(nodes) ==
    IF DOMAIN nodes = {} THEN 0
    ELSE CHOOSE k \in DOMAIN nodes : \A j \in DOMAIN nodes : k <= j

\* nodes.keys().max().copied().unwrap_or(0)
MaxKey(nodes) ==
    IF DOMAIN nodes = {} THEN 0
    ELSE CHOOSE k \in DOMAIN nodes : \A j \in DOMAIN nodes : j <= k

\* variant: the counter is the number of nodes plus one
Snapshot_try_from_CountNodes(value) ==
    LET nodes == CollectNodes(value.entities, EmptyMap)
        edges == CollectEdges(value.relations, EmptyMap)
    IN IF ~nodes.ok THEN nodes
       ELSE IF ~edges.ok THEN edges
       ELSE Decoded([nodes |-> nodes.value, edges |-> edges.value,
                     latest_id |-> Cardinality(DOMAIN nodes.value) + 1])

\* impl TryFrom<SerializableSnapshot> for Snapshot
Snapshot_try_from(value) ==
    LET nodes == CollectNodes(value.entities, EmptyMap)
        edges == CollectEdges(value.relations, EmptyMap)
    IN IF ~nodes.ok THEN nodes
       ELSE IF ~edges.ok THEN edges
       ELSE Decoded([nodes |-> nodes.value, edges |-> edges.value,
                     latest_id |-> MaxKey(nodes.value) + 1])

\* Snapshot::from_xml : a text without a KG element does not deserialize
from_xml(xml) ==
    IF xml = <<>> THEN Failed("Deserialize", "", "")
    ELSE Snapshot_try_from(xml[1])

quiet == <<observed, log, faults>>

HeldBy(thread) == [held |-> TRUE, thread |-> thread]
MainThread == 0

TextFile(text) == [exists |-> TRUE, text |-> text]

\* variant: the snapshot sent is the one the call started from
notify_save_BeforeCall ==
    IF worker[opened].pc # "exited"
    THEN /\ sent' = [sent EXCEPT ![opened] = @ + 1]
         /\ rx' = [rx EXCEPT ![opened] =
                      Append(@, Item(sent[opened] + 1, current))]
    ELSE UNCHANGED <<rx, sent>>

\* FiledKnowledgeGraph::notify_save, for the coordinator in use: a clone of
\* current is sent; send fails when the receiving thread is gone
notify_save ==
    IF worker[opened].pc # "exited"
    THEN /\ sent' = [sent EXCEPT ![opened] = @ + 1]
         /\ rx' = [rx EXCEPT ![opened] =
                      Append(@, Item(sent[opened] + 1, current'))]
    ELSE UNCHANGED <<rx, sent>>

\* variant: a wrapper waits until FILE_WRITE_LOCK is free
Wrapper_WaitsForLock ==
    /\ main = MainIdle
    /\ opened >= 1
    /\ ~FILE_WRITE_LOCK.held
    /\ UNCHANGED <<file, opened, main, FILE_WRITE_LOCK, save_sender, worker,
                   persisted, cycle_writes, on_disk>>

\* a wrapper is called on the coordinator in use and returns at once
Wrapper ==
    /\ main = MainIdle
    /\ opened >= 1
    /\ UNCHANGED <<file, opened, main, FILE_WRITE_LOCK, save_sender, worker,
                   persisted, cycle_writes, on_disk>>

\* variant: the snapshot is sent whatever the result of the call
NotifyIfOk_Always == Wrapper /\ notify_save

\* the wrappers: let res = self.graph.op(..); if res.is_ok() { notify_save }
NotifyIfOk ==
    /\ Wrapper
    /\ IF last'.res = "Ok" THEN notify_save ELSE UNCHANGED <<rx, sent>>

\* the caller of the coordinators
TrackFile ==
    /\ calls < MaxFileCalls
    /\ calls' = calls + 1
    /\ UNCHANGED <<prev, returned, add_count, time_travel, undone,
                   phase, trace, undos, log, faults>>

FileIds == {1}
FileEdges == {<<1, 1>>}

Filed_add_entity ==
    /\ \E in \in EntityInputs : add_entity(in[1], in[2], in[3], in[4])
    /\ Wrapper
    /\ notify_save
    /\ TrackFile

Filed_remove_entity ==
    /\ \E id \in FileIds : remove_entity(id)
    /\ NotifyIfOk
    /\ TrackFile

Filed_update_entity_content ==
    /\ \E id \in FileIds, in \in ContentInputs :
           update_entity_content(id, in[1], in[2], in[3])
    /\ NotifyIfOk
    /\ TrackFile

Filed_update_entity_position ==
    /\ \E id \in FileIds, new_pos \in PosInputs :
           update_entity_position(id, new_pos)
    /\ NotifyIfOk
    /\ TrackFile

Filed_add_edge ==
    /\ \E e \in FileEdges : add_edge(e[1], e[2], "Order")
    /\ NotifyIfOk
    /\ TrackFile

Filed_remove_edge ==
    /\ \E e \in FileEdges : remove_edge(e[1], e[2])
    /\ NotifyIfOk
    /\ TrackFile

Filed_update_edge ==
    /\ \E e \in FileEdges : update_edge(e[1], e[2], "Contain")
    /\ NotifyIfOk
    /\ TrackFile

Filed_undo == undo /\ NotifyIfOk /\ TrackFile

Filed_redo == redo /\ NotifyIfOk /\ TrackFile

store == <<current, undo_stack, redo_stack, max_history>>

(***************************************************************************)
(* FiledKnowledgeGraph::save                                               *)
(***************************************************************************)
\* let xml = self.graph.current.to_xml()?
save_to_xml ==
    /\ main = MainIdle
    /\ opened >= 1
    /\ main' = [main EXCEPT !.pc = "save_lock", !.xml = to_xml(current)]
    /\ TrackFile
    /\ UNCHANGED <<store, last, before, file, opened, FILE_WRITE_LOCK, rx,
                   save_sender, worker, sent, persisted, cycle_writes,
                   on_disk>>

\* variant: the file is written without taking the lock
save_lock_NoLock ==
    /\ main.pc = "save_lock"
    /\ main' = [main EXCEPT !.pc = "save_open"]
    /\ UNCHANGED <<store, last, before, quiet, file, opened,
                   FILE_WRITE_LOCK, rx, save_sender, worker, sent, persisted,
                   cycle_writes, on_disk>>

\* FILE_WRITE_LOCK.lock() : waits until the lock is free
save_lock ==
    /\ main.pc = "save_lock"
    /\ ~FILE_WRITE_LOCK.held
    /\ FILE_WRITE_LOCK' = HeldBy(MainThread)
    /\ main' = [main EXCEPT !.pc = "save_open"]
    /\ UNCHANGED <<store, last, before, quiet, file, opened, rx,
                   save_sender, worker, sent, persisted, cycle_writes,
                   on_disk>>

\* fs::write : the file is opened and truncated
save_open ==
    /\ main.pc = "save_open"
    /\ file' = TextFile(<<>>)
    /\ main' = [main EXCEPT !.pc = "save_write"]
    /\ UNCHANGED <<store, last, before, quiet, opened,
                   FILE_WRITE_LOCK, rx, save_sender, worker, sent, persisted,
                   cycle_writes, on_disk>>

\* fs::write : the content is written
save_write ==
    /\ main.pc = "save_write"
    /\ file' = TextFile(main.xml)
    /\ on_disk' = Written(opened, sent[opened])
    /\ main' = [main EXCEPT !.pc = "save_return"]
    /\ UNCHANGED <<store, last, before, quiet, opened,
                   FILE_WRITE_LOCK, rx, save_sender, worker, sent, persisted,
                   cycle_writes>>

\* Ok(()) is returned and _lock is dropped
save_return ==
    /\ main.pc = "save_return"
    /\ FILE_WRITE_LOCK' = Unlocked
    /\ main' = MainIdle
    /\ last' = Call("save", <<>>, "Ok", 0)
    /\ UNCHANGED <<store, before, quiet, file, opened, rx,
                   save_sender, worker, sent, persisted, cycle_writes,
                   on_disk>>

(***************************************************************************)
(* FiledKnowledgeGraph::new                                                *)
(***************************************************************************)
\* new(path, create) is called
new_call(create) ==
    /\ main = MainIdle
    /\ opened < MaxCoordinators
    /\ main' = [main EXCEPT !.pc = "new_exists", !.create = create]
    /\ UNCHANGED <<store, last, before, quiet, file, opened,
                   FILE_WRITE_LOCK, rx, save_sender, worker, sent, persisted,
                   cycle_writes, on_disk>>

\* variant: an existing file is loaded whatever create is
new_exists_IgnoreCreate ==
    /\ main.pc = "new_exists"
    /\ main' = [main EXCEPT !.pc = IF ~file.exists
                                   THEN "new_write" ELSE "new_read"]
    /\ UNCHANGED <<store, last, before, quiet, file, opened,
                   FILE_WRITE_LOCK, rx, save_sender, worker, sent, persisted,
                   cycle_writes, on_disk>>

\* if !path.as_ref().exists() || create
new_exists ==
    /\ main.pc = "new_exists"
    /\ main' = [main EXCEPT !.pc = IF ~file.exists \/ main.create
                                   THEN "new_write" ELSE "new_read"]
    /\ UNCHANGED <<store, last, before, quiet, file, opened,
                   FILE_WRITE_LOCK, rx, save_sender, worker, sent, persisted,
                   cycle_writes, on_disk>>

\* the Ok(Self {..}) of new: the channel and the thread are there, the graph
\* is from_snapshot(snapshot); the value the caller held before is dropped
\* when the new one is assigned, and its Sender with it
Constructed(snapshot) ==
    /\ current' = snapshot
    /\ undo_stack' = <<>>
    /\ redo_stack' = <<>>
    /\ max_history' = DefaultMaxHistory
    /\ before' = snapshot
    /\ opened' = opened + 1
    /\ save_sender' = [g \in Coordinators |-> g = opened + 1]
    /\ worker' = [worker EXCEPT ![opened + 1] = WorkerAt("recv")]
    /\ main' = MainIdle
    /\ last' = Call("new", <<main.create>>, "Ok", 0)

\* fs::write(path, "") and the empty graph
new_write ==
    /\ main.pc = "new_write"
    /\ file' = TextFile(<<>>)
    /\ on_disk' = Written(opened + 1, 0)
    /\ Constructed(Snapshot_default)
    /\ UNCHANGED <<quiet, FILE_WRITE_LOCK, rx, sent, persisted,
                   cycle_writes>>

\* fs::read_to_string and Snapshot::from_xml; an error is returned with ?
new_read ==
    /\ main.pc = "new_read"
    /\ LET snapshot == from_xml(file.text) IN
       IF snapshot.ok
       THEN Constructed(snapshot.value)
       ELSE /\ main' = MainIdle
            /\ last' = Call("new", <<main.create>>, "Serde", 0)
            /\ UNCHANGED <<store, before, opened, save_sender, worker>>
    /\ UNCHANGED <<quiet, file, FILE_WRITE_LOCK, rx, sent, persisted,
                   cycle_writes, on_disk>>

(***************************************************************************)
(* The save thread of coordinator g.                                       *)
(***************************************************************************)
WorkerFrame ==
    <<store, last, before, quiet, opened, main, save_sender, sent>>

\* variant: recv returns Err as soon as the Sender is dropped, whatever the
\* channel holds
recv_ExitsOnDrop(g) ==
    /\ worker[g].pc = "recv"
    /\ IF ~save_sender[g]
       THEN /\ worker' = [worker EXCEPT ![g] = WorkerAt("exited")]
            /\ rx' = rx
       ELSE /\ rx[g] # <<>>
            /\ worker' = [worker EXCEPT ![g] =
                   [@ EXCEPT !.pc = "sleep", !.latest_snapshot = Head(rx[g])]]
            /\ rx' = [rx EXCEPT ![g] = Tail(@)]
    /\ UNCHANGED <<WorkerFrame, file, FILE_WRITE_LOCK, persisted,
                   cycle_writes, on_disk>>

\* while let Ok(snapshot) = rx.recv() : waits for a snapshot; Err when the
\* channel is empty and the Sender is dropped
recv(g) ==
    /\ worker[g].pc = "recv"
    /\ IF rx[g] # <<>>
       THEN /\ worker' = [worker EXCEPT ![g] =
                   [@ EXCEPT !.pc = "sleep", !.latest_snapshot = Head(rx[g])]]
            /\ rx' = [rx EXCEPT ![g] = Tail(@)]
       ELSE /\ ~save_sender[g]
            /\ worker' = [worker EXCEPT ![g] = WorkerAt("exited")]
            /\ rx' = rx
    /\ UNCHANGED <<WorkerFrame, file, FILE_WRITE_LOCK, persisted,
                   cycle_writes, on_disk>>

\* thread::sleep(Duration::from_millis(50))
sleep(g) ==
    /\ worker[g].pc = "sleep"
    /\ worker' = [worker EXCEPT ![g] = [@ EXCEPT !.pc = "drain"]]
    /\ UNCHANGED <<WorkerFrame, file, FILE_WRITE_LOCK, rx, persisted,
                   cycle_writes, on_disk>>

\* variant: the first snapshot is kept and the later ones are dropped
try_recv_KeepFirst(g) ==
    /\ worker[g].pc = "drain"
    /\ IF rx[g] # <<>>
       THEN /\ worker' = worker
            /\ rx' = [rx EXCEPT ![g] = Tail(@)]
       ELSE /\ worker' = [worker EXCEPT ![g] = [@ EXCEPT !.pc = "to_xml"]]
            /\ rx' = rx
    /\ UNCHANGED <<WorkerFrame, file, FILE_WRITE_LOCK, persisted,
                   cycle_writes, on_disk>>

\* while let Ok(new_snapshot) = rx.try_recv() { latest_snapshot = .. }
try_recv(g) ==
    /\ worker[g].pc = "drain"
    /\ IF rx[g] # <<>>
       THEN /\ worker' = [worker EXCEPT ![g] =
                   [@ EXCEPT !.latest_snapshot = Head(rx[g])]]
            /\ rx' = [rx EXCEPT ![g] = Tail(@)]
       ELSE /\ worker' = [worker EXCEPT ![g] = [@ EXCEPT !.pc = "to_xml"]]
            /\ rx' = rx
    /\ UNCHANGED <<WorkerFrame, file, FILE_WRITE_LOCK, persisted,
                   cycle_writes, on_disk>>

\* variant: the save thread takes FILE_WRITE_LOCK first and encodes the
\* snapshot while it holds it
worker_to_xml_Locked(g) ==
    /\ worker[g].pc = "to_xml"
    /\ ~FILE_WRITE_LOCK.held
    /\ FILE_WRITE_LOCK' = HeldBy(g)
    /\ worker' = [worker EXCEPT ![g] =
            [@ EXCEPT !.pc = "open",
                      !.xml = to_xml(worker[g].latest_snapshot.snap)]]
    /\ UNCHANGED <<WorkerFrame, file, rx, persisted, cycle_writes, on_disk>>

\* match latest_snapshot.to_xml() { Ok(xml) => ..
worker_to_xml(g) ==
    /\ worker[g].pc = "to_xml"
    /\ worker' = [worker EXCEPT ![g] =
            [@ EXCEPT !.pc = "lock",
                      !.xml = to_xml(worker[g].latest_snapshot.snap)]]
    /\ UNCHANGED <<WorkerFrame, file, FILE_WRITE_LOCK, rx, persisted,
                   cycle_writes, on_disk>>

\* let _lock = FILE_WRITE_LOCK.lock() : waits until the lock is free
worker_lock(g) ==
    /\ worker[g].pc = "lock"
    /\ ~FILE_WRITE_LOCK.held
    /\ FILE_WRITE_LOCK' = HeldBy(g)
    /\ worker' = [worker EXCEPT ![g] = [@ EXCEPT !.pc = "open"]]
    /\ UNCHANGED <<WorkerFrame, file, rx, persisted, cycle_writes,
                   on_disk>>

\* fs::write(&save_file_path, xml) : the file is opened and truncated
worker_open(g) ==
    /\ worker[g].pc = "open"
    /\ file' = TextFile(<<>>)
    /\ worker' = [worker EXCEPT ![g] = [@ EXCEPT !.pc = "write"]]
    /\ UNCHANGED <<WorkerFrame, FILE_WRITE_LOCK, rx, persisted, cycle_writes,
                   on_disk>>

\* fs::write(&save_file_path, xml) : the content is written
worker_write(g) ==
    /\ worker[g].pc = "write"
    /\ file' = TextFile(worker[g].xml)
    /\ worker' = [worker EXCEPT ![g] = [@ EXCEPT !.pc = "unlock"]]
    /\ persisted' = [persisted EXCEPT
                         ![g] = Append(@, worker[g].latest_snapshot.seq)]
    /\ cycle_writes' = [cycle_writes EXCEPT ![g] = @ + 1]
    /\ on_disk' = Written(g, worker[g].latest_snapshot.seq)
    /\ UNCHANGED <<WorkerFrame, FILE_WRITE_LOCK, rx>>

\* the end of the loop body: _lock, xml and latest_snapshot are dropped
worker_unlock(g) ==
    /\ worker[g].pc = "unlock"
    /\ FILE_WRITE_LOCK' = Unlocked
    /\ worker' = [worker EXCEPT ![g] = WorkerAt("recv")]
    /\ cycle_writes' = [cycle_writes EXCEPT ![g] = 0]
    /\ UNCHANGED <<WorkerFrame, file, rx, persisted, on_disk>>

SaveThread(g) ==
    \/ recv(g)
    \/ sleep(g)
    \/ try_recv(g)
    \/ worker_to_xml(g)
    \/ worker_lock(g)
    \/ worker_open(g)
    \/ worker_write(g)
    \/ worker_unlock(g)

(***************************************************************************)
(* The files a coordinator is opened on.                                   *)
(***************************************************************************)
DocEntity(id, content, name, attach) ==
    [id |-> id, class_name |-> name, classification |-> ContentMethodNode,
     identity |-> "&#30693;&#35782;", level |-> "&#19968;&#32423;",
     attach |-> attach, opentool |-> "&#26080;", content |-> content,
     x |-> 0, y |-> 0]

EmptyDocument == <<[title |-> KGTitle, entities |-> <<>>, relations |-> <<>>]>>

\* a document written by hand: entities 7, 3, 9 and an edge from 3 to 7
Document379 ==
    <<[title |-> KGTitle,
       entities |->
           <<DocEntity(7, "G", class_name("KnowledgeUnit"),
                       <<"0", "0", "0", "0", "0", "0">>),
             DocEntity(3, "C", class_name("KnowledgeArena"),
                       <<"1", "0", "0", "1", "0", "0">>),
             DocEntity(9, "I", class_name("KnowledgeDetail"),
                       <<"0", "0", "0", "0", "0", "1">>)>>,
       relations |->
           <<[SerializableEdge_from_edge(3, 7, "Order")
                  EXCEPT !.class_name = OrderLabelAlt]>>]>>

InitialFiles ==
    {MissingFile, TextFile(<<>>), TextFile(EmptyDocument),
     TextFile(Document379)}

InitFile ==
    /\ KnowledgeGraph_default(DefaultMaxHistory)
    /\ Fresh
    /\ file \in InitialFiles

\* the first coordinator of the process
New == \E create \in BOOLEAN : opened = 0 /\ new_call(create)

\* one coordinator, its caller and its save thread
NextFile ==
    \/ New
    \/ new_exists
    \/ new_write
    \/ new_read
    \/ Filed_add_entity
    \/ Filed_remove_entity
    \/ Filed_update_entity_content
    \/ Filed_update_entity_position
    \/ Filed_add_edge
    \/ Filed_remove_edge
    \/ Filed_update_edge
    \/ Filed_undo
    \/ Filed_redo
    \/ save_to_xml
    \/ save_lock
    \/ save_open
    \/ save_write
    \/ save_return
    \/ \E g \in Coordinators : SaveThread(g)

SpecFile == InitFile /\ [][NextFile]_vars

(***************************************************************************)
(* C12. When new() loads a document, the id counter of the store is one    *)
(* more than the largest entity id of the document, and 1 when the         *)
(* document has no entities: 10 for the entities 3, 7, 9 and 1 for the     *)
(* empty document.  An add_entity made next returns an id that none of the *)
(* loaded nodes has.                                                       *)
(***************************************************************************)
DocumentIds(text) == {text[1].entities[i].id : i \in DOMAIN text[1].entities}

C12_CounterAfterDecode ==
    [][/\ (main.pc = "new_read" /\ last'.res = "Ok") =>
              LET ids == DocumentIds(file.text) IN
              /\ \A id \in ids : current'.latest_id > id
              /\ ids # {} => current'.latest_id - 1 \in ids
              /\ ids = {} => current'.latest_id = 1
              /\ ids = {3, 7, 9} => current'.latest_id = 10
       /\ (last.op = "new" /\ last.res = "Ok" /\ last'.op = "add_entity") =>
              /\ last'.ret \notin DOMAIN current.nodes
              /\ last'.ret \in DOMAIN current'.nodes
      ]_vars

\* the document with the entities 3, 7, 9 was loaded and add_entity
\* returned 10
C12_Witness ==
    /\ calls = 1
    /\ last.op = "add_entity" /\ last.ret = 10
    /\ DOMAIN before.nodes = {3, 7, 9}

(***************************************************************************)
(* C17. A call of one of the nine wrappers (the seven mutations, undo,     *)
(* redo) that returns Ok appends exactly one snapshot to the channel of    *)
(* the coordinator, equal to current as the call leaves it; a call that    *)
(* returns an error leaves the channel as it is.  The channel holds the    *)
(* snapshots in the order of the calls that sent them.                     *)
(***************************************************************************)
WrapperCall == main = MainIdle /\ main' = MainIdle /\ calls' = calls + 1

C17_OneSnapshotPerSuccess ==
    [][/\ WrapperCall =>
              IF last'.res = "Ok"
              THEN /\ rx' = [rx EXCEPT ![opened] =
                                Append(@, Item(sent[opened] + 1, current'))]
                   /\ sent' = [sent EXCEPT ![opened] = @ + 1]
              ELSE rx' = rx /\ sent' = sent
       /\ \A g \in Coordinators : \A i \in DOMAIN rx'[g] :
              rx'[g][i].seq = sent'[g] - Len(rx'[g]) + i
      ]_vars

\* two calls succeeded, their snapshots are in the channel in that order,
\* and a third call returned an error
C17_Witness ==
    /\ last.op = "remove_edge" /\ last.res = "EdgeNotFound"
    /\ sent[1] = 2
    /\ Len(rx[1]) = 2
    /\ rx[1][2].snap = current
    /\ rx[1][1].snap # current

(***************************************************************************)
(* C18. In a cycle of the save thread the drain ends on an empty channel   *)
(* and keeps the snapshot sent last; that snapshot is the one encoded and  *)
(* written, the snapshots taken before it in the cycle are not written,    *)
(* there is at most one write in a cycle, and the snapshots a save thread  *)
(* writes are written in the order they were sent in.                      *)
(***************************************************************************)
InCycleAfterDrain(g) == worker[g].pc \in {"to_xml", "lock", "open", "write"}

C18_DrainKeepsLast ==
    [][\A g \in Coordinators :
          /\ (worker[g].pc = "drain" /\ worker'[g].pc = "to_xml") =>
                 /\ rx[g] = <<>>
                 /\ worker'[g].latest_snapshot.seq = sent[g]
          /\ InCycleAfterDrain(g) =>
                 worker'[g].latest_snapshot = worker[g].latest_snapshot
          /\ persisted'[g] # persisted[g] =>
                 /\ worker[g].pc = "write"
                 /\ persisted'[g] =
                        Append(persisted[g], worker[g].latest_snapshot.seq)
                 /\ file' = TextFile(to_xml(worker[g].latest_snapshot.snap))
          /\ cycle_writes'[g] <= 1
          /\ \A i, j \in DOMAIN persisted'[g] :
                 i < j => persisted'[g][i] < persisted'[g][j]
      ]_vars

\* the first snapshot sent was dropped in the drain and the second one is
\* the only one written
C18_Witness ==
    /\ persisted[1] = <<2>>
    /\ worker[1].pc = "unlock"
    /\ file = TextFile(to_xml(current))
    /\ sent[1] = 2

(***************************************************************************)
(* The process of the application: the coordinator in use is replaced by   *)
(* a new one on the same path (self.graph = Some(graph) in app.rs); the    *)
(* save thread of the replaced one runs on until its channel is closed     *)
(* and empty.                                                              *)
(***************************************************************************)
Replace == \E create \in BOOLEAN : opened >= 1 /\ new_call(create)

NextProcess ==
    \/ NextFile
    \/ Replace

SpecProcess == InitFile /\ [][NextProcess]_vars

(***************************************************************************)
(* C19. The write of a save thread and the write of save() are never in    *)
(* progress together, whether the save thread belongs to the coordinator   *)
(* save() is called on or to another one of the process, and each of them  *)
(* is in progress only while its thread holds FILE_WRITE_LOCK.             *)
(***************************************************************************)
SaveWriting == main.pc \in {"save_open", "save_write"}
WorkerWriting(g) == worker[g].pc \in {"open", "write"}

C19_WritesExclusive ==
    /\ \A g \in Coordinators : ~(SaveWriting /\ WorkerWriting(g))
    /\ SaveWriting => FILE_WRITE_LOCK = HeldBy(MainThread)
    /\ \A g \in Coordinators : WorkerWriting(g) => FILE_WRITE_LOCK = HeldBy(g)

\* save() on the second coordinator waits for the lock while the save
\* thread of the first one is writing
C19_Witness ==
    /\ opened = 2
    /\ main.pc = "save_lock"
    /\ worker[1].pc = "write"
    /\ FILE_WRITE_LOCK = HeldBy(1)

(***************************************************************************)
(* One coordinator with threads that are scheduled fairly: a save thread   *)
(* that can take a step takes one, and so does the main thread inside      *)
(* new() and save().  The caller is free to stop calling at any time, and  *)
(* makes MaxFileCalls calls of save() and the wrappers at most.            *)
(***************************************************************************)
MainContinues ==
    \/ new_exists
    \/ new_write
    \/ new_read
    \/ save_lock
    \/ save_open
    \/ save_write
    \/ save_return

FairSpecFile ==
    /\ SpecFile
    /\ \A g \in Coordinators : WF_vars(SaveThread(g))
    /\ WF_vars(MainContinues)

(***************************************************************************)
(* C20. With fair threads and no failure of encoding, locking or writing:  *)
(* when a call of the coordinator has succeeded in changing the store,     *)
(* then from some moment after the last call on, the file holds the        *)
(* encoding of current and goes on holding it, whatever the interleaving   *)
(* of the calls, the cycles of the save thread and save().                 *)
(***************************************************************************)
C20_EventuallyConsistent ==
    <>[]((\E g \in Coordinators : sent[g] > 0) =>
             file = TextFile(to_xml(current)))

\* the save thread wrote the first snapshot, then the second one, and is
\* waiting on the empty channel; the file holds the encoding of current
C20_Witness ==
    /\ persisted[1] = <<1, 2>>
    /\ sent[1] = 2
    /\ worker[1].pc = "recv" /\ rx[1] = <<>>
    /\ main = MainIdle
    /\ file = TextFile(to_xml(current))
    /\ DOMAIN current.nodes # {}

(***************************************************************************)
(* C21. Once a completed write of a coordinator has put the snapshot of    *)
(* its i-th successful call in the file, no later completed write of the   *)
(* save thread or of save() puts the snapshot of an earlier successful     *)
(* call j < i of that coordinator there.                                   *)
(***************************************************************************)
C21_NoStaleWrite ==
    [][(on_disk'.coordinator = on_disk.coordinator) =>
           on_disk'.seq >= on_disk.seq]_vars

(***************************************************************************)
(* Calls that fail.  to_xml, FILE_WRITE_LOCK.lock(), fs::write and         *)
(* fs::read_to_string return a Result; each of the steps below is the Err  *)
(* outcome of one of them, in save(), in new() and in the save thread.     *)
(* lock() returns its error once it has the mutex, and the guard inside    *)
(* the error is dropped with it.  fs::write fails either when it opens     *)
(* the file, which is then untouched, or when it writes, and the file is   *)
(* then left truncated.                                                    *)
(***************************************************************************)
Fault(thread, call, seq) ==
    /\ Len(faults) < MaxFaults
    /\ faults' = Append(faults,
                        [thread |-> thread, call |-> call, seq |-> seq])

\* save returns the error with main back in the caller
save_Err(kind, call) ==
    /\ main' = MainIdle
    /\ last' = Call("save", <<>>, kind, 0)
    /\ Fault(MainThread, call, 0)
    /\ UNCHANGED <<store, before, file, opened, rx, save_sender, worker,
                   sent, persisted, cycle_writes, on_disk>>

\* let xml = self.graph.current.to_xml()? : Err(Error::Serde)
save_to_xml_Err ==
    /\ main = MainIdle
    /\ opened >= 1
    /\ calls < MaxFileCalls
    /\ calls' = calls + 1
    /\ save_Err("Serde", "to_xml")
    /\ UNCHANGED <<prev, returned, add_count, time_travel, undone,
                   phase, trace, undos, log, FILE_WRITE_LOCK>>

\* Err(e) => return Err(Error::Poison(e.to_string()))
save_lock_Err ==
    /\ main.pc = "save_lock"
    /\ ~FILE_WRITE_LOCK.held
    /\ save_Err("Poison", "lock")
    /\ UNCHANGED <<observed, log, FILE_WRITE_LOCK>>

\* variant: the error of fs::write is swallowed and Ok(()) is returned
save_open_Err_ReturnsOk ==
    /\ main.pc = "save_open"
    /\ FILE_WRITE_LOCK' = Unlocked
    /\ save_Err("Ok", "open")
    /\ UNCHANGED <<observed, log>>

\* fs::write(..).map_err(Error::Io) : the file could not be opened
save_open_Err ==
    /\ main.pc = "save_open"
    /\ FILE_WRITE_LOCK' = Unlocked
    /\ save_Err("Io", "open")
    /\ UNCHANGED <<observed, log>>

\* fs::write(..).map_err(Error::Io) : the content could not be written
save_write_Err ==
    /\ main.pc = "save_write"
    /\ FILE_WRITE_LOCK' = Unlocked
    /\ save_Err("Io", "write")
    /\ UNCHANGED <<observed, log>>

\* new returns the error: no coordinator is constructed
new_Err(kind, call) ==
    /\ main' = MainIdle
    /\ last' = Call("new", <<main.create>>, kind, 0)
    /\ Fault(MainThread, call, 0)
    /\ UNCHANGED <<store, before, observed, log, file, opened,
                   FILE_WRITE_LOCK, rx, save_sender, worker, sent, persisted,
                   cycle_writes, on_disk>>

\* fs::write(path.as_ref(), "")? : Err(Error::Io)
new_write_Err ==
    /\ main.pc = "new_write"
    /\ new_Err("Io", "write")

\* fs::read_to_string(path.as_ref())? : Err(Error::Io)
new_read_Err ==
    /\ main.pc = "new_read"
    /\ new_Err("Io", "read")

\* what a failing step of a save thread leaves alone
WorkerErrFrame ==
    <<store, last, before, observed, log, opened, main, save_sender, sent,
      file, rx, persisted, cycle_writes, on_disk>>

\* variant: the save thread ends when encoding fails
worker_to_xml_Err_Exits(g) ==
    /\ worker[g].pc = "to_xml"
    /\ worker' = [worker EXCEPT ![g] = WorkerAt("exited")]
    /\ Fault(g, "to_xml", worker[g].latest_snapshot.seq)
    /\ UNCHANGED <<WorkerErrFrame, FILE_WRITE_LOCK>>

\* Err(e) => eprintln!(..) of latest_snapshot.to_xml(): the loop goes on
worker_to_xml_Err(g) ==
    /\ worker[g].pc = "to_xml"
    /\ worker' = [worker EXCEPT ![g] = WorkerAt("recv")]
    /\ Fault(g, "to_xml", worker[g].latest_snapshot.seq)
    /\ UNCHANGED <<WorkerErrFrame, FILE_WRITE_LOCK>>

\* Err(e) => { eprintln!(..); continue; } of FILE_WRITE_LOCK.lock()
worker_lock_Err(g) ==
    /\ worker[g].pc = "lock"
    /\ ~FILE_WRITE_LOCK.held
    /\ worker' = [worker EXCEPT ![g] = WorkerAt("recv")]
    /\ Fault(g, "lock", worker[g].latest_snapshot.seq)
    /\ UNCHANGED <<WorkerErrFrame, FILE_WRITE_LOCK>>

\* if let Err(e) = fs::write(..) { eprintln!(..) } : the file could not be
\* opened; the loop body ends and _lock is dropped
worker_open_Err(g) ==
    /\ worker[g].pc = "open"
    /\ worker' = [worker EXCEPT ![g] = WorkerAt("recv")]
    /\ FILE_WRITE_LOCK' = Unlocked
    /\ Fault(g, "open", worker[g].latest_snapshot.seq)
    /\ UNCHANGED WorkerErrFrame

\* if let Err(e) = fs::write(..) { eprintln!(..) } : the content could not
\* be written; the loop body ends and _lock is dropped
worker_write_Err(g) ==
    /\ worker[g].pc = "write"
    /\ worker' = [worker EXCEPT ![g] = WorkerAt("recv")]
    /\ FILE_WRITE_LOCK' = Unlocked
    /\ Fault(g, "write", worker[g].latest_snapshot.seq)
    /\ UNCHANGED WorkerErrFrame

SaveThreadFails(g) ==
    \/ worker_to_xml_Err(g)
    \/ worker_lock_Err(g)
    \/ worker_open_Err(g)
    \/ worker_write_Err(g)

\* one coordinator whose caller adds entities, removes them and saves,
\* with calls that fail
NextFaults ==
    \/ New
    \/ new_exists
    \/ new_write
    \/ new_read
    \/ new_write_Err
    \/ new_read_Err
    \/ Filed_add_entity
    \/ Filed_remove_entity
    \/ save_to_xml
    \/ save_lock
    \/ save_open
    \/ save_write
    \/ save_return
    \/ save_to_xml_Err
    \/ save_lock_Err
    \/ save_open_Err
    \/ save_write_Err
    \/ \E g \in Coordinators : SaveThread(g)
    \/ \E g \in Coordinators : SaveThreadFails(g)

SpecFaults == InitFile /\ [][NextFaults]_vars

(***************************************************************************)
(* C22. new(path, create) takes the branch of the empty document when the  *)
(* path does not exist or create is true: the file is then written empty   *)
(* and the store starts from the empty snapshot.  Otherwise current starts *)
(* as the decoded content of the file.  In both cases the undo and redo    *)
(* stacks start empty.  When reading, writing or decoding fails, new       *)
(* returns the error and no coordinator is constructed.                    *)
(***************************************************************************)
NewReturns(pc) == main.pc = pc /\ main' = MainIdle

NoCoordinator ==
    /\ last'.op = "new" /\ last'.res \in {"Io", "Serde"}
    /\ opened' = opened
    /\ UNCHANGED <<store, worker, save_sender, file>>

C22_Construction ==
    [][/\ (main.pc = "new_exists" /\ main' # main) =>
              IF ~file.exists \/ main.create
              THEN main'.pc = "new_write" ELSE main'.pc = "new_read"
       /\ NewReturns("new_write") =>
              IF last'.res = "Ok"
              THEN /\ file' = TextFile(<<>>)
                   /\ current' = [nodes |-> EmptyMap, edges |-> EmptyMap,
                                  latest_id |-> 1]
                   /\ undo_stack' = <<>> /\ redo_stack' = <<>>
                   /\ opened' = opened + 1
              ELSE NoCoordinator
       /\ NewReturns("new_read") =>
              LET decoded == from_xml(file.text) IN
              IF last'.res = "Ok"
              THEN /\ decoded.ok /\ current' = decoded.value
                   /\ undo_stack' = <<>> /\ redo_stack' = <<>>
                   /\ opened' = opened + 1
              ELSE NoCoordinator
      ]_vars

\* new(path, false) has loaded the document with the entities 3, 7, 9
C22_Witness ==
    /\ last = Call("new", <<FALSE>>, "Ok", 0)
    /\ opened = 1
    /\ DOMAIN current.nodes = {3, 7, 9}
    /\ DOMAIN current.edges = {<<3, 7>>}
    /\ undo_stack = <<>> /\ redo_stack = <<>>

(***************************************************************************)
(* C23. save() returns Ok only after it has written the encoding of        *)
(* current to the file while holding the lock.  It returns Serde when      *)
(* encoding fails, Poison when the lock is poisoned and Io when the write  *)
(* fails.  No step of save() changes current, the undo stack or the redo   *)
(* stack.                                                                  *)
(***************************************************************************)
InSave == main.pc \in {"save_lock", "save_open", "save_write", "save_return"}

C23_SaveResult ==
    [][/\ (InSave /\ main' # main) =>
              /\ UNCHANGED <<current, undo_stack, redo_stack>>
              /\ file' # file => FILE_WRITE_LOCK = HeldBy(MainThread)
       /\ (InSave /\ main' = MainIdle) =>
              /\ last'.op = "save"
              /\ CASE main.pc = "save_lock" -> last'.res = "Poison"
                   [] main.pc = "save_open" -> last'.res = "Io"
                   [] main.pc = "save_write" -> last'.res = "Io"
                   [] main.pc = "save_return" ->
                          /\ last'.res = "Ok"
                          /\ file = TextFile(to_xml(current))
                          /\ file' = file
                          /\ FILE_WRITE_LOCK = HeldBy(MainThread)
       /\ (main = MainIdle /\ main' = MainIdle /\ last'.op = "save"
               /\ calls' = calls + 1) =>
              /\ last'.res = "Serde"
              /\ UNCHANGED <<current, undo_stack, redo_stack, file>>
      ]_vars

\* a first save() returned Poison, the second one returned Ok and the file
\* holds the encoding of a graph with a node
C23_Witness ==
    /\ last = Call("save", <<>>, "Ok", 0)
    /\ faults = <<[thread |-> MainThread, call |-> "lock", seq |-> 0]>>
    /\ file = TextFile(to_xml(current))
    /\ DOMAIN current.nodes # {}

(***************************************************************************)
(* The coordinator with failing calls and fair threads.  At most MaxFaults *)
(* calls fail, so the failures stop.                                       *)
(***************************************************************************)
\* The steps of the save thread's loop around the encoding step.
SaveThreadAround(g) ==
    \/ recv(g)
    \/ sleep(g)
    \/ try_recv(g)
    \/ worker_lock(g)
    \/ worker_open(g)
    \/ worker_write(g)
    \/ worker_unlock(g)

\* The save thread is scheduled.  worker_to_xml(g) is enabled exactly when
\* the thread stands at "to_xml" and it leaves "to_xml", so weak fairness of
\* it says that the thread does not stand at "to_xml" for ever.
FairSpecFaults ==
    /\ SpecFaults
    /\ \A g \in Coordinators :
           /\ WF_vars(SaveThreadAround(g))
           /\ []<>(worker[g].pc # "to_xml")
    /\ WF_vars(MainContinues)

(***************************************************************************)
(* C24. When a call fails in a cycle of a save thread (to_xml, lock or     *)
(* fs::write), no caller gets a result from it, the store is unchanged,    *)
(* and the save thread is not ended: it is back at recv with its channel   *)
(* as it was.  A save thread that had a failure and is sent a snapshot     *)
(* after the one of its last failed cycle comes to write the snapshot      *)
(* sent last.                                                              *)
(***************************************************************************)
WorkerFaults(g) == {i \in DOMAIN faults : faults[i].thread = g}

\* the number of the snapshot of the last cycle of g that failed
LastFailed(g) ==
    faults[CHOOSE i \in WorkerFaults(g) : \A j \in WorkerFaults(g) : j <= i].seq

C24_WorkerFailureStep ==
    \A g \in Coordinators :
        (faults' # faults /\ faults'[Len(faults')].thread = g) =>
            /\ last' = last /\ main' = main
            /\ UNCHANGED <<current, undo_stack, redo_stack>>
            /\ worker'[g].pc = "recv"
            /\ rx' = rx /\ save_sender' = save_sender
            /\ FILE_WRITE_LOCK' # HeldBy(g)

CallerIdle == main = MainIdle /\ opened >= 1 /\ calls < MaxFileCalls

C25_WrappersNeverWait ==
    /\ [][WrapperCall =>
              /\ FILE_WRITE_LOCK' = FILE_WRITE_LOCK
              /\ worker' = worker
              /\ file' = file]_vars
    /\ [](CallerIdle =>
              /\ ENABLED Filed_add_entity
              /\ ENABLED Filed_remove_entity
              /\ ENABLED Filed_update_entity_content
              /\ ENABLED Filed_update_entity_position
              /\ ENABLED Filed_add_edge
              /\ ENABLED Filed_remove_edge
              /\ ENABLED Filed_update_edge
              /\ ENABLED Filed_undo
              /\ ENABLED Filed_redo)

\* a wrapper has returned, its snapshot is in the channel and the caller can
\* call again, while the save thread holds the lock and is writing an
\* earlier snapshot
C25_Witness ==
    /\ CallerIdle
    /\ worker[opened].pc = "write"
    /\ FILE_WRITE_LOCK = HeldBy(opened)
    /\ rx[opened] # <<>>
    /\ last.op = "remove_entity"
    /\ last.res = "Ok"

(***************************************************************************)
(* The codec applied to inputs of its own: the functions of codec.rs are   *)
(* called on values drawn from bounded sets and the call is recorded in    *)
(* last, the input in args and the output in ret.  The functions keep no   *)
(* state, so a behaviour is one call.                                      *)
(***************************************************************************)
InitCodec ==
    /\ KnowledgeGraph_default(DefaultMaxHistory)
    /\ Fresh
    /\ file = MissingFile

CodecFrame == <<store, before, observed, log, filed>>

\* the slices of addon types given to EntityNode::new, in any order and
\* with repetitions
AddonSlices == UNION {[1..n -> AddonEntityType] : n \in 0..MaxSlice}

\* EntityNode::new(.., addon_types, ..), SerializableEntity::from on the
\* node and EntityNode::try_from on the result
Codec_attach ==
    /\ last = NoCall
    /\ \E addon_types \in AddonSlices, distinct_type \in DistinctEntityType :
           LET node == EntityNode_new(1, "A", distinct_type, addon_types,
                                      <<0, 0>>)
               entity == SerializableEntity_from(node)
               decoded == EntityNode_try_from(entity)
           IN last' = Call("serialize_addon_types",
                           <<addon_types, distinct_type>>, "Ok",
                           <<entity.attach, decoded.value.addon_types>>)
    /\ UNCHANGED CodecFrame

\* the class_name strings of the entities and of the relations of the
\* documents given to from_xml: the labels of the codec, and an empty
\* string, the level of a type and the classification of the nodes in the
\* place of a label
EntityNames ==
    {class_name(distinct_type) : distinct_type \in DistinctEntityType}
        \cup {"", level("KnowledgeArena")}
RelationNames ==
    {ContainLabel, OrderLabel, OrderLabelAlt} \cup {"", ContentMethodNode}

\* the documents with at most MaxItems entities and relations; the i-th
\* entity has the id i, the relations go from 1 to 2
Documents ==
    {<<[title |-> KGTitle,
        entities |-> [i \in DOMAIN names |->
                         DocEntity(i, "A", names[i],
                                   <<"0", "0", "0", "0", "0", "0">>)],
        relations |-> [i \in DOMAIN rels |->
                          [SerializableEdge_from_edge(1, 2, "Contain")
                               EXCEPT !.class_name = rels[i]]]]>> :
        names \in UNION {[1..n -> EntityNames] : n \in 0..MaxItems},
        rels \in UNION {[1..n -> RelationNames] : n \in 0..MaxItems}}

\* Snapshot::from_xml on a document
Codec_from_xml ==
    /\ last = NoCall
    /\ \E xml \in Documents :
           LET decoded == from_xml(xml)
           IN last' = Call("from_xml", <<xml>>,
                           IF decoded.ok THEN "Ok" ELSE decoded.err[1],
                           decoded)
    /\ UNCHANGED CodecFrame

\* struct SerializableEntity : the fields in the order of their declaration
SerializableEntity_fields ==
    <<"id", "class_name", "classification", "identity", "level", "attach",
      "opentool", "content", "x", "y">>

\* struct SerializableEdge : the fields in the order of their declaration
SerializableEdge_fields ==
    <<"name", "headnodeid", "tailnodeid", "class_name", "mask",
      "classification", "head_need", "tail_need">>

\* #[derive(Serialize)] on a struct: one element per field, named as the
\* field, in the order of the declaration
serialize_struct(value, fields) ==
    [i \in DOMAIN fields |-> <<fields[i], value[fields[i]]>>]

\* quick_xml::se::to_string on a SerializableSnapshot: the title is the text
\* of KG ($value), entities holds one entity element per item and relations
\* one relation element per item
se_to_string(value) ==
    [title |-> value.title,
     entities |-> [i \in DOMAIN value.entities |->
                      serialize_struct(value.entities[i],
                                       SerializableEntity_fields)],
     relations |-> [i \in DOMAIN value.relations |->
                       serialize_struct(value.relations[i],
                                        SerializableEdge_fields)]]

(***************************************************************************)
(* The text of a document.  A text is a sequence of code points.  Chars    *)
(* gives the characters of the strings of the model, which are written     *)
(* with the character references of the file, and TagChars those of the    *)
(* names of the elements.                                                  *)
(***************************************************************************)
Chars ==
       "" :>
           <<>>
    @@ "A" :>
           <<65>>
    @@ "B" :>
           <<66>>
    @@ "&#19990;&amp;B" :>
           <<19990, 38, 66>>
    @@ "&#129408;" :>
           <<129408>>
    @@ "&#30693;&#35782;&#39046;&#22495;" :>
           <<30693, 35782, 39046, 22495>>
    @@ "&#30693;&#35782;&#21333;&#20803;" :>
           <<30693, 35782, 21333, 20803>>
    @@ "&#30693;&#35782;&#28857;" :>
           <<30693, 35782, 28857>>
    @@ "&#20851;&#38190;&#30693;&#35782;&#32454;&#33410;" :>
           <<20851, 38190, 30693, 35782, 32454, 33410>>
    @@ "&#19968;&#32423;" :>
           <<19968, 32423>>
    @@ "&#20108;&#32423;" :>
           <<20108, 32423>>
    @@ "&#24402;&#32435;&#32423;" :>
           <<24402, 32435, 32423>>
    @@ "&#20869;&#23481;&#32423;" :>
           <<20869, 23481, 32423>>
    @@ "&#20869;&#23481;&#26041;&#27861;&#22411;&#33410;&#28857;" :>
           <<20869, 23481, 26041, 27861, 22411, 33410, 28857>>
    @@ "&#30693;&#35782;" :>
           <<30693, 35782>>
    @@ "&#26080;" :>
           <<26080>>
    @@ "&#21253;&#21547;" :>
           <<21253, 21547>>
    @@ "&#30693;&#35782;&#36830;&#32447;" :>
           <<30693, 35782, 36830, 32447>>
    @@ "&#21253;&#21547;&#20851;&#31995;" :>
           <<21253, 21547, 20851, 31995>>
    @@ "&#27425;&#24207;&#20851;&#31995;" :>
           <<27425, 24207, 20851, 31995>>
    @@ "&#25945;&#23398;&#30693;&#35782;&#22270;&#35889;" :>
           <<25945, 23398, 30693, 35782, 22270, 35889>>

TagChars ==
       "KG" :>
           <<75, 71>>
    @@ "entities" :>
           <<101, 110, 116, 105, 116, 105, 101, 115>>
    @@ "entity" :>
           <<101, 110, 116, 105, 116, 121>>
    @@ "relations" :>
           <<114, 101, 108, 97, 116, 105, 111, 110, 115>>
    @@ "relation" :>
           <<114, 101, 108, 97, 116, 105, 111, 110>>
    @@ "id" :>
           <<105, 100>>
    @@ "class_name" :>
           <<99, 108, 97, 115, 115, 95, 110, 97, 109, 101>>
    @@ "classification" :>
           <<99, 108, 97, 115, 115, 105, 102, 105, 99, 97, 116, 105, 111, 110>>
    @@ "identity" :>
           <<105, 100, 101, 110, 116, 105, 116, 121>>
    @@ "level" :>
           <<108, 101, 118, 101, 108>>
    @@ "attach" :>
           <<97, 116, 116, 97, 99, 104>>
    @@ "opentool" :>
           <<111, 112, 101, 110, 116, 111, 111, 108>>
    @@ "content" :>
           <<99, 111, 110, 116, 101, 110, 116>>
    @@ "x" :>
           <<120>>
    @@ "y" :>
           <<121>>
    @@ "name" :>
           <<110, 97, 109, 101>>
    @@ "headnodeid" :>
           <<104, 101, 97, 100, 110, 111, 100, 101, 105, 100>>
    @@ "tailnodeid" :>
           <<116, 97, 105, 108, 110, 111, 100, 101, 105, 100>>
    @@ "mask" :>
           <<109, 97, 115, 107>>
    @@ "head_need" :>
           <<104, 101, 97, 100, 95, 110, 101, 101, 100>>
    @@ "tail_need" :>
           <<116, 97, 105, 108, 95, 110, 101, 101, 100>>

\* Iterator::collect::<String>() : the pieces one after the other
RECURSIVE Concat(_)
Concat(pieces) ==
    IF Len(pieces) = 0 THEN <<>>
    ELSE IF Len(pieces) = 1 THEN pieces[1]
    ELSE LET half == Len(pieces) \div 2
         IN Concat(SubSeq(pieces, 1, half))
                \o Concat(SubSeq(pieces, half + 1, Len(pieces)))

\* format!("{}", n) : the decimal digits of n
RECURSIVE Digits(_)
Digits(n) ==
    IF n < 10 THEN <<48 + n>> ELSE Digits(n \div 10) \o <<48 + (n % 10)>>

\* variant: the characters of Latin-1 are left as they are
escape_non_ascii_Latin1(input) ==
    Concat([i \in DOMAIN input |->
               IF input[i] < 256 THEN <<input[i]>>
               ELSE <<38, 35>> \o Digits(input[i]) \o <<59>>])

\* escape_non_ascii : c.is_ascii() keeps c, any other c becomes &#<c as u32>;
escape_non_ascii(input) ==
    Concat([i \in DOMAIN input |->
               IF input[i] < 128 THEN <<input[i]>>
               ELSE <<38, 35>> \o Digits(input[i]) \o <<59>>])

\* quick_xml::se : the text of an element, & < > written &amp; &lt; &gt;
escape_text(text) ==
    Concat([i \in DOMAIN text |->
               CASE text[i] = 38 -> <<38, 97, 109, 112, 59>>
                 [] text[i] = 60 -> <<38, 108, 116, 59>>
                 [] text[i] = 62 -> <<38, 103, 116, 59>>
                 [] OTHER -> <<text[i]>>])

\* the fields of type u64 and f64
NumberFields == {"id", "headnodeid", "tailnodeid", "x", "y"}

\* the text of a field: a number in decimal, attach as its six characters,
\* a String with its text escaped
FieldText(name, value) ==
    IF name \in NumberFields THEN Digits(value)
    ELSE IF name = "attach"
    THEN [i \in DOMAIN value |-> IF value[i] = "1" THEN 49 ELSE 48]
    ELSE escape_text(Chars[value])

\* quick_xml::events::Event
Start(name) == [kind |-> "Start", name |-> name, text |-> <<>>]
End(name) == [kind |-> "End", name |-> name, text |-> <<>>]
Empty(name) == [kind |-> "Empty", name |-> name, text |-> <<>>]
TextEvent(text) == [kind |-> "Text", name |-> "", text |-> text]

\* <name>text</name>, and <name/> for an empty text
FieldEvents(field) ==
    LET text == FieldText(field[1], field[2])
    IN IF text = <<>> THEN <<Empty(field[1])>>
       ELSE <<Start(field[1]), TextEvent(text), End(field[1])>>

\* an entity or a relation: its fields between <name> and </name>
StructEvents(name, fields) ==
    <<Start(name)>>
        \o Concat([i \in DOMAIN fields |-> FieldEvents(fields[i])])
        \o <<End(name)>>

\* entities or relations: the items between <name> and </name>, and <name/>
\* for no items
ListEvents(name, item, items) ==
    IF items = <<>> THEN <<Empty(name)>>
    ELSE <<Start(name)>>
             \o Concat([i \in DOMAIN items |-> StructEvents(item, items[i])])
             \o <<End(name)>>

\* reader.read_event() until Eof, on the string of se_to_string
read_event(content) ==
    <<Start("KG"), TextEvent(escape_text(Chars[content.title]))>>
        \o ListEvents("entities", "entity", content.entities)
        \o ListEvents("relations", "relation", content.relations)
        \o <<End("KG")>>

\* Writer::new_with_indent(.., b' ', 4) : a new line and 4 spaces for each
\* open element
Indentation(depth) == <<10>> \o [i \in 1..(4 * depth) |-> 32]

\* the markup of an event: <name>, </name>, <name/>
Markup(event) ==
    CASE event.kind = "Start" -> <<60>> \o TagChars[event.name] \o <<62>>
      [] event.kind = "End" -> <<60, 47>> \o TagChars[event.name] \o <<62>>
      [] event.kind = "Empty" -> <<60>> \o TagChars[event.name] \o <<47, 62>>

\* the number of elements that are open when events[i] is written: Start
\* grows the indentation after it is written and End shrinks it before
Depth(events, i) ==
    Cardinality({j \in 1..(i - 1) : events[j].kind = "Start"})
        - Cardinality({j \in 1..i : events[j].kind = "End"})

\* writer.write_event(events[i]): a text is written as it is, markup goes on
\* a new line unless it is the first event or follows a text
write_event(events, i) ==
    IF events[i].kind = "Text" THEN events[i].text
    ELSE (IF i > 1 /\ events[i - 1].kind # "Text"
          THEN Indentation(Depth(events, i)) ELSE <<>>)
             \o Markup(events[i])

\* indent_xml, on the events of its argument: each event is written in turn
indent_xml(content) ==
    LET events == read_event(content)
    IN Concat([i \in DOMAIN events |-> write_event(events, i)])

\* SerializableSnapshot::to_xml : serialized, indented, then escaped
SerializableSnapshot_to_xml(value) ==
    escape_non_ascii(indent_xml(se_to_string(value)))

\* the nodes of the snapshots given to to_xml: one of each primary type
CodecEntities ==
    {<<"A", "KnowledgeArena", <<>>>>,
     <<"B", "KnowledgeUnit", <<"Example", "Question">>>>,
     <<"&#19990;&amp;B", "KnowledgePoint", <<"Practice">>>>,
     <<"&#129408;", "KnowledgeDetail", <<"Thinking", "Thinking">>>>}

\* the edges of the snapshots given to to_xml
CodecPairs == {<<1, 2>>, <<2, 1>>}

\* the snapshots with at most MaxItems nodes and with edges between nodes
\* they hold
CodecSnapshots ==
    {[nodes |-> [id \in DOMAIN entities |->
                    EntityNode_new(id, entities[id][1], entities[id][2],
                                   entities[id][3], <<id, 0>>)],
      edges |-> edges,
      latest_id |-> MaxItems + 1] :
        entities \in UNION {[ids -> CodecEntities] :
                               ids \in SUBSET (1..MaxItems)},
        edges \in UNION {[pairs -> {"Contain", "Order"}] :
                            pairs \in SUBSET CodecPairs}}

\* Snapshot::to_xml on a snapshot whose edges join nodes it holds
Codec_to_xml ==
    /\ last = NoCall
    /\ \E snapshot \in CodecSnapshots :
           /\ \A pair \in DOMAIN snapshot.edges :
                  {pair[1], pair[2]} \subseteq DOMAIN snapshot.nodes
           /\ LET value == SerializableSnapshot_from(snapshot)
              IN last' = Call("to_xml", <<snapshot>>, "Ok",
                              [document |-> se_to_string(value),
                               indented |-> indent_xml(se_to_string(value)),
                               text |-> SerializableSnapshot_to_xml(value)])
    /\ UNCHANGED CodecFrame

\* the characters of the strings given to escape_non_ascii: & A DEL, the
\* first character that is not ASCII, one of Latin-1, one of the basic
\* plane and one above it
SampleChars == {38, 65, 127, 128, 233, 19990, 129408}

\* escape_non_ascii on a string
Codec_escape_non_ascii ==
    /\ last = NoCall
    /\ \E input \in UNION {[1..n -> SampleChars] : n \in 0..MaxChars} :
           last' = Call("escape_non_ascii", <<input>>, "Ok",
                        escape_non_ascii(input))
    /\ UNCHANGED CodecFrame

\* the codec called on its inputs
NextCodec ==
    \/ Codec_attach
    \/ Codec_from_xml
    \/ Codec_to_xml
    \/ Codec_escape_non_ascii

SpecCodec == InitCodec /\ [][NextCodec]_vars

(***************************************************************************)
(* C26. The attach string of an encoded entity has six characters, each    *)
(* "0" or "1"; the i-th is "1" exactly when the i-th type of Thinking,     *)
(* Political, Question, Knowledge, Example, Practice is in the addon set   *)
(* of the node.  Every slice with the same set of types, in any order and  *)
(* with any repetitions, gives the same string, and decoding the string    *)
(* gives the set back.                                                     *)
(***************************************************************************)
SlotOrder ==
    <<"Thinking", "Political", "Question", "Knowledge", "Example", "Practice">>

C26_AttachBitmask ==
    last.op = "serialize_addon_types" =>
        LET supplied == last.args[1]
            set == {supplied[i] : i \in DOMAIN supplied}
            attach == last.ret[1]
        IN /\ DOMAIN attach = 1..6
           /\ \A i \in 1..6 :
                  /\ attach[i] \in {"0", "1"}
                  /\ attach[i] = "1" <=> SlotOrder[i] \in set
           /\ \A other \in AddonSlices :
                  {other[i] : i \in DOMAIN other} = set =>
                      serialize_addon_types(CollectAddons(other)) = attach
           /\ last.ret[2] = set

\* Practice, Thinking, Practice is encoded as 100001 and decoded as the set
\* of Thinking and Practice
C26_Witness ==
    /\ last.op = "serialize_addon_types"
    /\ last.args[1] = <<"Practice", "Thinking", "Practice">>
    /\ last.ret = <<<<"1", "0", "0", "0", "0", "1">>,
                    {"Thinking", "Practice"}>>

(***************************************************************************)
(* C27. Decoding a document in which the class_name of an entity is not    *)
(* one of the four labels of the primary types, or the class_name of a     *)
(* relation is not one of the accepted labels, fails with Unexpected,      *)
(* which carries the name of the field and the string that was found, and  *)
(* gives no snapshot.  The entities are decoded before the relations.      *)
(***************************************************************************)
PrimaryLabels ==
    {"&#30693;&#35782;&#39046;&#22495;", "&#30693;&#35782;&#21333;&#20803;",
     "&#30693;&#35782;&#28857;",
     "&#20851;&#38190;&#30693;&#35782;&#32454;&#33410;"}
RelationLabels ==
    {"&#21253;&#21547;&#20851;&#31995;", "&#27425;&#24207;&#20851;&#31995;",
     "&#27425;&#24207;&#65306;&#27425;&#24207;&#20851;&#31995;"}

\* the first item of items with a class_name outside labels, 0 if none
FirstUnknown(items, labels) ==
    LET unknown == {i \in DOMAIN items : items[i].class_name \notin labels}
    IN IF unknown = {} THEN 0
       ELSE CHOOSE i \in unknown : \A j \in unknown : i <= j

C27_UnknownClassName ==
    last.op = "from_xml" =>
        LET document == last.args[1][1]
            entity == FirstUnknown(document.entities, PrimaryLabels)
            relation == FirstUnknown(document.relations, RelationLabels)
        IN (entity # 0 \/ relation # 0) =>
               /\ last.res = "Unexpected"
               /\ ~last.ret.ok
               /\ last.ret.value = <<>>
               /\ last.ret.err =
                      IF entity # 0
                      THEN <<"Unexpected", "&#23454;&#20307;&#31867;&#22411;",
                             document.entities[entity].class_name>>
                      ELSE <<"Unexpected", "&#20851;&#31995;&#21517;",
                             document.relations[relation].class_name>>

\* two entities are decoded and the second relation has the classification
\* of the nodes as its class_name
C27_Witness ==
    /\ last.op = "from_xml"
    /\ Len(last.args[1][1].entities) = 2
    /\ \A i \in 1..2 : last.args[1][1].entities[i].class_name \in PrimaryLabels
    /\ Len(last.args[1][1].relations) = 2
    /\ last.args[1][1].relations[1].class_name = OrderLabelAlt
    /\ last.args[1][1].relations[2].class_name = ContentMethodNode
    /\ last.ret = Failed("Unexpected", "&#20851;&#31995;&#21517;",
                         ContentMethodNode)

(***************************************************************************)
(* C28. An encoded entity has the elements id, class_name, classification, *)
(* identity, level, attach, opentool, content, x, y, in this order, and an *)
(* encoded relation the elements name, headnodeid, tailnodeid, class_name, *)
(* mask, classification, head_need, tail_need, in this order, with         *)
(* headnodeid and tailnodeid the two ends of the edge.  classification,    *)
(* identity and opentool are the same in every entity, and name, mask,     *)
(* head_need and tail_need the same in every relation: the name of an      *)
(* Order edge is the name of a Contain edge.                               *)
(***************************************************************************)
Names(element) == [i \in DOMAIN element |-> element[i][1]]
Text(element, name) ==
    element[CHOOSE i \in DOMAIN element : element[i][1] = name][2]

EntityLayout ==
    <<"id", "class_name", "classification", "identity", "level", "attach",
      "opentool", "content", "x", "y">>
RelationLayout ==
    <<"name", "headnodeid", "tailnodeid", "class_name", "mask",
      "classification", "head_need", "tail_need">>

C28_FixedLayout ==
    last.op = "to_xml" =>
        LET snapshot == last.args[1]
            document == last.ret.document
            pairs == PairsInOrder(DOMAIN snapshot.edges)
        IN /\ Len(document.entities) = Cardinality(DOMAIN snapshot.nodes)
           /\ Len(document.relations) = Cardinality(DOMAIN snapshot.edges)
           /\ \A i \in DOMAIN document.entities :
                  LET entity == document.entities[i]
                  IN /\ Names(entity) = EntityLayout
                     /\ Text(entity, "classification") =
                            "&#20869;&#23481;&#26041;&#27861;&#22411;&#33410;&#28857;"
                     /\ Text(entity, "identity") = "&#30693;&#35782;"
                     /\ Text(entity, "opentool") = "&#26080;"
           /\ \A i \in DOMAIN document.relations :
                  LET relation == document.relations[i]
                  IN /\ Names(relation) = RelationLayout
                     /\ Text(relation, "headnodeid") = pairs[i][1]
                     /\ Text(relation, "tailnodeid") = pairs[i][2]
                     /\ Text(relation, "name") = "&#21253;&#21547;"
                     /\ Text(relation, "mask") =
                            "&#30693;&#35782;&#36830;&#32447;"
                     /\ Text(relation, "head_need") =
                            "&#20869;&#23481;&#26041;&#27861;&#22411;&#33410;&#28857;"
                     /\ Text(relation, "tail_need") =
                            "&#20869;&#23481;&#26041;&#27861;&#22411;&#33410;&#28857;"

\* two nodes of different types, an Order edge from 1 to 2 and a Contain
\* edge from 2 to 1: the Order edge is encoded with the name of a Contain
\* edge
C28_Witness ==
    /\ last.op = "to_xml"
    /\ DOMAIN last.args[1].nodes = {1, 2}
    /\ last.args[1].nodes[1].distinct_type # last.args[1].nodes[2].distinct_type
    /\ DOMAIN last.args[1].edges = {<<1, 2>>, <<2, 1>>}
    /\ last.args[1].edges[<<1, 2>>] = "Order"
    /\ last.args[1].edges[<<2, 1>>] = "Contain"
    /\ Text(last.ret.document.relations[1], "class_name") = OrderLabel
    /\ Text(last.ret.document.relations[1], "name") = "&#21253;&#21547;"

(***************************************************************************)
(* C29. escape_non_ascii writes every character with a code point of 128   *)
(* or more as the reference &#code point; in decimal and leaves every      *)
(* ASCII character as it is.  to_xml applies it to the whole indented      *)
(* document as its last step, so the text it returns has ASCII characters  *)
(* only, while the document before that step has others.                   *)
(***************************************************************************)
\* the references of the characters of the inputs: & # digits ;
References ==
       128 :> <<38, 35, 49, 50, 56, 59>>
    @@ 233 :> <<38, 35, 50, 51, 51, 59>>
    @@ 19968 :> <<38, 35, 49, 57, 57, 54, 56, 59>>
    @@ 19990 :> <<38, 35, 49, 57, 57, 57, 48, 59>>
    @@ 20108 :> <<38, 35, 50, 48, 49, 48, 56, 59>>
    @@ 20803 :> <<38, 35, 50, 48, 56, 48, 51, 59>>
    @@ 20851 :> <<38, 35, 50, 48, 56, 53, 49, 59>>
    @@ 20869 :> <<38, 35, 50, 48, 56, 54, 57, 59>>
    @@ 21253 :> <<38, 35, 50, 49, 50, 53, 51, 59>>
    @@ 21333 :> <<38, 35, 50, 49, 51, 51, 51, 59>>
    @@ 21547 :> <<38, 35, 50, 49, 53, 52, 55, 59>>
    @@ 22270 :> <<38, 35, 50, 50, 50, 55, 48, 59>>
    @@ 22411 :> <<38, 35, 50, 50, 52, 49, 49, 59>>
    @@ 22495 :> <<38, 35, 50, 50, 52, 57, 53, 59>>
    @@ 23398 :> <<38, 35, 50, 51, 51, 57, 56, 59>>
    @@ 23481 :> <<38, 35, 50, 51, 52, 56, 49, 59>>
    @@ 24207 :> <<38, 35, 50, 52, 50, 48, 55, 59>>
    @@ 24402 :> <<38, 35, 50, 52, 52, 48, 50, 59>>
    @@ 25945 :> <<38, 35, 50, 53, 57, 52, 53, 59>>
    @@ 26041 :> <<38, 35, 50, 54, 48, 52, 49, 59>>
    @@ 26080 :> <<38, 35, 50, 54, 48, 56, 48, 59>>
    @@ 27425 :> <<38, 35, 50, 55, 52, 50, 53, 59>>
    @@ 27861 :> <<38, 35, 50, 55, 56, 54, 49, 59>>
    @@ 28857 :> <<38, 35, 50, 56, 56, 53, 55, 59>>
    @@ 30693 :> <<38, 35, 51, 48, 54, 57, 51, 59>>
    @@ 31995 :> <<38, 35, 51, 49, 57, 57, 53, 59>>
    @@ 32423 :> <<38, 35, 51, 50, 52, 50, 51, 59>>
    @@ 32435 :> <<38, 35, 51, 50, 52, 51, 53, 59>>
    @@ 32447 :> <<38, 35, 51, 50, 52, 52, 55, 59>>
    @@ 32454 :> <<38, 35, 51, 50, 52, 53, 52, 59>>
    @@ 33410 :> <<38, 35, 51, 51, 52, 49, 48, 59>>
    @@ 35782 :> <<38, 35, 51, 53, 55, 56, 50, 59>>
    @@ 35889 :> <<38, 35, 51, 53, 56, 56, 57, 59>>
    @@ 36830 :> <<38, 35, 51, 54, 56, 51, 48, 59>>
    @@ 38190 :> <<38, 35, 51, 56, 49, 57, 48, 59>>
    @@ 39046 :> <<38, 35, 51, 57, 48, 52, 54, 59>>
    @@ 129408 :> <<38, 35, 49, 50, 57, 52, 48, 56, 59>>

Escaped(input) ==
    Concat([i \in DOMAIN input |->
               IF input[i] >= 128 THEN References[input[i]]
               ELSE <<input[i]>>])

C29_EscapedLast ==
    /\ last.op = "escape_non_ascii" => last.ret = Escaped(last.args[1])
    /\ last.op = "to_xml" =>
           /\ \E i \in DOMAIN last.ret.indented : last.ret.indented[i] >= 128
           /\ last.ret.text = Escaped(last.ret.indented)
           /\ \A i \in DOMAIN last.ret.text : last.ret.text[i] < 128

\* a node with a content of a character of the basic plane, & and B: the
\* text holds &#19990;&amp;B between <content> and </content>
C29_Witness ==
    /\ last.op = "to_xml"
    /\ \E id \in DOMAIN last.args[1].nodes :
           last.args[1].nodes[id].content = "&#19990;&amp;B"
    /\ \E i \in DOMAIN last.ret.text :
           /\ i + 22 <= Len(last.ret.text)
           /\ SubSeq(last.ret.text, i, i + 22) =
                  <<60, 99, 111, 110, 116, 101, 110, 116, 62,
                    38, 35, 49, 57, 57, 57, 48, 59,
                    38, 97, 109, 112, 59, 66>>

(***************************************************************************)
(* C30. Every write of the file is made by a thread that holds             *)
(* FILE_WRITE_LOCK: the write of a save thread, the write of save() and    *)
(* the fs::write(path, "") of new; and new does not read the file while a  *)
(* save thread is inside its write.                                        *)
(***************************************************************************)
Writer ==
    IF main' # main THEN MainThread
    ELSE CHOOSE g \in Coordinators : worker'[g] # worker[g]

C30_AllWritesLocked ==
    [][/\ file' # file => FILE_WRITE_LOCK = HeldBy(Writer)
       /\ (main.pc = "new_read" /\ main' # main) =>
              \A g \in Coordinators : ~WorkerWriting(g)]_vars

(***************************************************************************)
(* C31. In the cycle of a save thread and in save(), the snapshot is       *)
(* encoded before FILE_WRITE_LOCK is taken: the step that encodes is taken *)
(* by a thread that does not hold the lock and leaves the lock as it was,  *)
(* and a thread holds the lock exactly while it is between its lock() and  *)
(* the end of its fs::write, with its text already encoded.                *)
(***************************************************************************)
MainEncodes == main.xml = <<>> /\ main'.xml # <<>>
WorkerEncodes(g) == worker'[g].xml # worker[g].xml /\ worker'[g].xml # <<>>

MainInWrite == main.pc \in {"save_open", "save_write", "save_return"}
WorkerInWrite(g) == worker[g].pc \in {"open", "write", "unlock"}

LockScope ==
    /\ FILE_WRITE_LOCK = HeldBy(MainThread) <=> MainInWrite
    /\ MainInWrite => main.xml # <<>>
    /\ \A g \in Coordinators :
           /\ FILE_WRITE_LOCK = HeldBy(g) <=> WorkerInWrite(g)
           /\ WorkerInWrite(g) =>
                  worker[g].xml = to_xml(worker[g].latest_snapshot.snap)

C31_EncodeBeforeLock ==
    /\ []LockScope
    /\ [][/\ MainEncodes =>
                 /\ FILE_WRITE_LOCK # HeldBy(MainThread)
                 /\ FILE_WRITE_LOCK' = FILE_WRITE_LOCK
                 /\ main'.xml = to_xml(current)
          /\ \A g \in Coordinators : WorkerEncodes(g) =>
                 /\ FILE_WRITE_LOCK # HeldBy(g)
                 /\ FILE_WRITE_LOCK' = FILE_WRITE_LOCK]_vars

\* the save thread has encoded its snapshot and waits for the lock that
\* save() holds for its write
C31_Witness ==
    /\ opened >= 1
    /\ main.pc = "save_write"
    /\ FILE_WRITE_LOCK = HeldBy(MainThread)
    /\ worker[1].pc = "lock"
    /\ worker[1].xml = to_xml(worker[1].latest_snapshot.snap)

(***************************************************************************)
(* C32. A mutating call that returns EntityNotFound or EdgeNotFound leaves *)
(* the undo stack and the redo stack exactly as they were: it pushes no    *)
(* snapshot, evicts none and does not clear the redo stack, so a redo that *)
(* was possible before the failed call is still possible after it.         *)
(***************************************************************************)
NotFound == {"EntityNotFound", "EdgeNotFound"}

C32_FailedCallKeepsHistory ==
    [][(last'.op \in MutatingOps /\ last'.res \in NotFound) =>
           /\ undo_stack' = undo_stack
           /\ redo_stack' = redo_stack]_vars

(***************************************************************************)
(* C33. A relation whose class_name is one of the two spellings of Order   *)
(* (the one the encoder writes, or the alternate one) decodes to           *)
(* Relation::Order, and Order is always encoded with the spelling of the   *)
(* encoder, so encode(decode(d)) carries that spelling also when d used    *)
(* the alternate one; Contain is read from and written as its one label.   *)
(***************************************************************************)
AcceptedLabels == {ContainLabel, OrderLabel, OrderLabelAlt}

RelationOf(name) == IF name = ContainLabel THEN "Contain" ELSE "Order"
LabelOf(name) == IF name = ContainLabel THEN ContainLabel ELSE OrderLabel

\* the document given to from_xml has entities with known class_names and
\* at least one relation, all relations with an accepted class_name
AcceptedDocument ==
    /\ last.op = "from_xml"
    /\ \A i \in DOMAIN last.args[1][1].entities :
           last.args[1][1].entities[i].class_name \in
               {class_name(t) : t \in DistinctEntityType}
    /\ last.args[1][1].relations # <<>>
    /\ \A i \in DOMAIN last.args[1][1].relations :
           last.args[1][1].relations[i].class_name \in AcceptedLabels

C33_OrderSpellings ==
    AcceptedDocument =>
        LET relations == last.args[1][1].relations
            given == relations[Len(relations)].class_name
        IN /\ last.res = "Ok"
           /\ last.ret.ok
           /\ DOMAIN last.ret.value.edges = {<<1, 2>>}
           /\ last.ret.value.edges[<<1, 2>>] = RelationOf(given)
           /\ LET encoded == to_xml(last.ret.value)[1].relations
              IN /\ Len(encoded) = 1
                 /\ encoded[1].class_name = LabelOf(given)
                 /\ encoded[1].classification = LabelOf(given)
                 /\ encoded[1].class_name # OrderLabelAlt

\* a document whose relation has the alternate spelling was decoded, and
\* its encoding has the spelling of the encoder
C33_Witness ==
    /\ AcceptedDocument
    /\ Len(last.args[1][1].relations) = 1
    /\ last.args[1][1].relations[1].class_name = OrderLabelAlt
    /\ last.ret.ok
    /\ last.ret.value.edges[<<1, 2>>] = "Order"
    /\ to_xml(last.ret.value)[1].relations[1].class_name = OrderLabel

(***************************************************************************)
(* C34. In every reachable state of the store the undo stack and the redo  *)
(* stack hold together at most max_history snapshots: a mutating call      *)
(* leaves the redo stack empty and the undo stack within max_history, and  *)
(* a successful undo or redo moves exactly one snapshot from one stack to  *)
(* the other, so that the sum of the two lengths stays.                    *)
(***************************************************************************)
History == Len(undo_stack) + Len(redo_stack)

C34_HistoryBounded ==
    /\ [](History <= max_history)
    /\ [][/\ last'.op \in MutatingOps =>
                 /\ redo_stack' = <<>>
                 /\ Len(undo_stack') <= max_history
          /\ (last'.op = "undo" /\ last'.res = "Ok") =>
                 /\ Len(undo_stack') = Len(undo_stack) - 1
                 /\ Len(redo_stack') = Len(redo_stack) + 1
          /\ (last'.op = "redo" /\ last'.res = "Ok") =>
                 /\ Len(undo_stack') = Len(undo_stack) + 1
                 /\ Len(redo_stack') = Len(redo_stack) - 1]_vars

\* a full history with snapshots on both stacks, after a redo
C34_Witness ==
    /\ last.op = "redo" /\ last.res = "Ok"
    /\ undo_stack # <<>>
    /\ redo_stack # <<>>
    /\ History = max_history

(***************************************************************************)
(* C35. In every snapshot held by a store created empty or from a decoded  *)
(* document (current and every entry of the undo and redo stacks) the id   *)
(* counter is greater than every key of the node map and the node under    *)
(* the key k has the id k; add_entity therefore inserts under a key that   *)
(* was absent and leaves every node that was there as it was.              *)
(***************************************************************************)
WellKeyed(snap) ==
    \A k \in DOMAIN snap.nodes :
        /\ k < snap.latest_id
        /\ snap.nodes[k].id = k

C35_CounterAboveKeys ==
    /\ [](/\ WellKeyed(current)
          /\ \A i \in DOMAIN undo_stack : WellKeyed(undo_stack[i])
          /\ \A i \in DOMAIN redo_stack : WellKeyed(redo_stack[i]))
    /\ [][(current' # current /\ last'.op = "add_entity") =>
              /\ last'.ret \notin DOMAIN current.nodes
              /\ DOMAIN current'.nodes = DOMAIN current.nodes \cup {last'.ret}
              /\ \A k \in DOMAIN current.nodes :
                     current'.nodes[k] = current.nodes[k]]_vars

\* a store loaded from the document with the entities 7, 3 and 9, after an
\* add_entity, an undo and a second add_entity
C35_Witness ==
    /\ opened >= 1
    /\ last.op = "add_entity"
    /\ {3, 7, 9} \subseteq DOMAIN current.nodes
    /\ last.ret = 10
    /\ current.nodes[10].id = 10
    /\ Len(undo_stack) = 1
    /\ sent[1] = 3

(***************************************************************************)
(* C36. An edge is keyed by the ordered pair of its endpoints: add_edge,   *)
(* update_edge and remove_edge on (a, b) with a # b never create, change   *)
(* or remove the edge (b, a); add_edge(a, a) on an existing entity is      *)
(* accepted, and remove_entity(a) removes the edge (a, a).                 *)
(***************************************************************************)
EdgeCalls == {"add_edge", "update_edge", "remove_edge"}

Reverse(call) == <<call.args[2], call.args[1]>>

SameEntry(edges, other, pair) ==
    /\ pair \in DOMAIN edges <=> pair \in DOMAIN other
    /\ pair \in DOMAIN edges => edges[pair] = other[pair]

C36_OrderedPairKeys ==
    [][/\ (last'.op \in EdgeCalls /\ last'.args[1] # last'.args[2]) =>
              SameEntry(current.edges, current'.edges, Reverse(last'))
       /\ (last'.op = "add_edge" /\ last'.args[1] = last'.args[2]
               /\ last'.args[1] \in DOMAIN current.nodes) =>
              /\ last'.res = "Ok"
              /\ current'.edges[<<last'.args[1], last'.args[1]>>] =
                     last'.args[3]
       /\ (last'.op = "remove_entity" /\ last'.res = "Ok") =>
              <<last'.args[1], last'.args[1]>> \notin DOMAIN current'.edges]_vars

\* remove_edge(a, b) was made with the edge (b, a) in the store, which is
\* still there
C36_Witness ==
    /\ last.op = "remove_edge" /\ last.res = "Ok"
    /\ last.args[1] # last.args[2]
    /\ <<last.args[1], last.args[2]>> \in DOMAIN before.edges
    /\ Reverse(last) \in DOMAIN before.edges
    /\ Reverse(last) \in DOMAIN current.edges

(***************************************************************************)
(* C37. Every edge of a snapshot that from_xml decoded has both endpoints  *)
(* among the decoded entities: decoding never yields a snapshot with a     *)
(* dangling edge.                                                          *)
(***************************************************************************)
C37_DecodedEndpointsExist ==
    (last.op = "from_xml" /\ last.ret.ok) => EndpointsExist(last.ret.value)

(***************************************************************************)
(* C38. A document that new() has initialised can be reopened: once new()  *)
(* has returned Ok, and before any other call, the file exists and decodes *)
(* to the snapshot the store holds (the empty graph when new() took the    *)
(* create branch), so that new(path, false) on it would succeed.           *)
(***************************************************************************)
C38_ConstructedFileDecodes ==
    (opened >= 1 /\ last.op = "new" /\ last.res = "Ok") =>
        /\ file.exists
        /\ from_xml(file.text).ok
        /\ from_xml(file.text).value = current

(***************************************************************************)
(* C39. When the coordinator in use is replaced by one constructed on the  *)
(* same path with create = true, the file holds from the truncation on     *)
(* only what the new coordinator wrote (the empty content of new, or a     *)
(* snapshot of its store): as long as new(path, true) is the last call     *)
(* that returned, no step makes the content of the file a snapshot of the  *)
(* replaced coordinator.                                                   *)
(***************************************************************************)
Recreated == opened = 2 /\ last = Call("new", <<TRUE>>, "Ok", 0)

C39_ReplacedWorkerSilent ==
    [][Recreated => on_disk'.coordinator = 2]_vars

(***************************************************************************)
(* The process of the application with threads that are scheduled fairly:  *)
(* a save thread that can take a step takes one (its encoding step needs   *)
(* nothing from the other threads), and so does the main thread inside     *)
(* new() and save().                                                       *)
(***************************************************************************)
FairSpecProcess ==
    /\ SpecProcess
    /\ \A g \in Coordinators :
           /\ WF_vars(SaveThreadAround(g))
           /\ []<>(worker[g].pc # "to_xml")
    /\ WF_vars(MainContinues)

(***************************************************************************)
(* C40. Once a coordinator is dropped (it was the only sender of its       *)
(* channel), its save thread still receives every snapshot that is queued, *)
(* writes the last of them and then ends, because the channel is closed:   *)
(* with fair threads the save thread eventually ends, it ends only with    *)
(* the sender dropped and the channel empty, and the last content it wrote *)
(* is the snapshot of the last call that succeeded before the drop.        *)
(***************************************************************************)
Dropped(g) == worker[g].pc # "unspawned" /\ ~save_sender[g]
Exited(g) == worker[g].pc = "exited"

====
